---- MODULE Spec2Model ----
(***************************************************************************)
(* Model of the text normalizer of hiscaler/normalizer (normalizer.go, the *)
(* revision with Labels / MatchMethod / Validate).                         *)
(*                                                                         *)
(* A Go string is a sequence of one-character strings.  The pseudo         *)
(* character "U+3000" stands for the full-width space.                     *)
(***************************************************************************)
EXTENDS Integers, Sequences, FiniteSets, TLC

(***************************************************************************)
(* Bounds of the model                                                     *)
(***************************************************************************)
\* number of Parse calls on one result mapping before it is reset
MaxParses == 2

\* largest number of entries of a Replaces map
MaxReplaces == 2

\* largest number of rules in the rule sets enumerated for Validate
MaxRules == 2

\* largest length of the enumerated boolean field values
MaxBoolLen == 2

\* largest length of the enumerated values given to the value transform
MaxValueLen == 3

\* largest number of lines of the texts enumerated for the line loop of Parse
MaxLines == 3

(***************************************************************************)
(* Go's strings package, on the characters the model uses.                 *)
(***************************************************************************)
UpperChars == <<"A","B","C","D","E","F","G","H","I","J","K","L","M",
                "N","O","P","Q","R","S","T","U","V","W","X","Y","Z">>

LowerChars == <<"a","b","c","d","e","f","g","h","i","j","k","l","m",
                "n","o","p","q","r","s","t","u","v","w","x","y","z">>

Digits == <<"0","1","2","3","4","5","6","7","8","9">>

IsSpace(c) == c \in {" ", "\t", "\n", "\r", "U+3000"}

ToLowerChar(c) ==
    IF \E i \in 1..26 : UpperChars[i] = c
    THEN LowerChars[CHOOSE i \in 1..26 : UpperChars[i] = c]
    ELSE c

ToLower(s) == [i \in 1..Len(s) |-> ToLowerChar(s[i])]

EqualFold(a, b) ==
    /\ Len(a) = Len(b)
    /\ \A i \in 1..Len(a) : ToLowerChar(a[i]) = ToLowerChar(b[i])

TrimSpace(s) ==
    IF \A i \in 1..Len(s) : IsSpace(s[i])
    THEN <<>>
    ELSE LET lo == CHOOSE i \in 1..Len(s) :
                       ~IsSpace(s[i]) /\ \A j \in 1..(i-1) : IsSpace(s[j])
             hi == CHOOSE i \in 1..Len(s) :
                       ~IsSpace(s[i]) /\ \A j \in (i+1)..Len(s) : IsSpace(s[j])
         IN  SubSeq(s, lo, hi)

\* p occurs in s at position i
MatchAt(s, i, p) ==
    /\ i + Len(p) - 1 <= Len(s)
    /\ \A k \in 1..Len(p) : s[i + k - 1] = p[k]

HasPrefix(s, p) == MatchAt(s, 1, p)

\* 1-based position of the first occurrence of p in s, 0 when there is none
Index(s, p) ==
    IF \E i \in 1..(Len(s) + 1) : MatchAt(s, i, p)
    THEN CHOOSE i \in 1..(Len(s) + 1) :
             MatchAt(s, i, p) /\ \A j \in 1..(i-1) : ~MatchAt(s, j, p)
    ELSE 0

Contains(s, p) == Index(s, p) # 0

RECURSIVE Split(_, _)

\* s cut at the occurrence of sep at position i (0: sep does not occur)
SplitAt(s, sep, i) ==
    IF i = 0
    THEN <<s>>
    ELSE <<SubSeq(s, 1, i - 1)>> \o Split(SubSeq(s, i + Len(sep), Len(s)), sep)

Split(s, sep) ==
    IF sep = <<>>
    THEN [i \in 1..Len(s) |-> <<s[i]>>]
    ELSE SplitAt(s, sep, Index(s, sep))

RECURSIVE Join(_, _)
Join(parts, sep) ==
    IF parts = <<>> THEN <<>>
    ELSE IF Len(parts) = 1 THEN parts[1]
    ELSE parts[1] \o sep \o Join(Tail(parts), sep)


(***************************************************************************)
(* Values.  An interface{} value of Items or of a default is a record with *)
(* a type tag and one field per dynamic type; unused fields hold the zero  *)
(* value.  Integers and floats are kept as canonical decimal numerals, so  *)
(* that the 64-bit range can be expressed.                                  *)
(***************************************************************************)
NilV      == [t |-> "nil",    b |-> FALSE, n |-> <<>>, s |-> <<>>, a |-> <<>>]
BoolV(x)  == [t |-> "bool",   b |-> x,     n |-> <<>>, s |-> <<>>, a |-> <<>>]
IntV(x)   == [t |-> "int",    b |-> FALSE, n |-> x,    s |-> <<>>, a |-> <<>>]
FloatV(x) == [t |-> "float",  b |-> FALSE, n |-> x,    s |-> <<>>, a |-> <<>>]
StrV(x)   == [t |-> "string", b |-> FALSE, n |-> <<>>, s |-> x,    a |-> <<>>]
ArrV(x)   == [t |-> "array",  b |-> FALSE, n |-> <<>>, s |-> <<>>, a |-> x]

\* error values; NoError is Go's nil error
NoError == [kind |-> "nil", i |-> 0, j |-> 0, text |-> <<>>]
Err(kind, i, j, text) == [kind |-> kind, i |-> i, j |-> j, text |-> text]

(***************************************************************************)
(* strconv                                                                 *)
(***************************************************************************)
IsDigit(c) == \E i \in 1..10 : Digits[i] = c

AllDigits(s) == \A i \in 1..Len(s) : IsDigit(s[i])

DigitVal(c) == (CHOOSE i \in 1..10 : Digits[i] = c) - 1

\* a digit string without its leading zeros ("0" for zero)
StripZeros(s) ==
    IF \A i \in 1..Len(s) : s[i] = "0"
    THEN <<"0">>
    ELSE LET lo == CHOOSE i \in 1..Len(s) :
                       s[i] # "0" /\ \A j \in 1..(i-1) : s[j] = "0"
         IN  SubSeq(s, lo, Len(s))

\* a < b for digit strings of equal length
RECURSIVE LexLess(_, _)
LexLess(a, b) ==
    IF a = <<>> THEN FALSE
    ELSE IF a[1] # b[1] THEN DigitVal(a[1]) < DigitVal(b[1])
    ELSE LexLess(Tail(a), Tail(b))

\* a > b for digit strings without leading zeros
MagGreater(a, b) ==
    \/ Len(a) > Len(b)
    \/ Len(a) = Len(b) /\ LexLess(b, a)

MaxInt64 == <<"9","2","2","3","3","7","2","0","3","6","8","5","4","7","7","5","8","0","7">>

MinInt64Mag == <<"9","2","2","3","3","7","2","0","3","6","8","5","4","7","7","5","8","0","8">>

\* a numeral starts with a minus sign
IsNegative(s) == s # <<>> /\ s[1] = "-"

\* a numeral without its sign
Unsigned(s) == IF s # <<>> /\ s[1] \in {"+", "-"} THEN Tail(s) ELSE s

\* the result of ParseInt for sign neg and magnitude mag (no leading zeros)
ParseIntRange(s, neg, mag) ==
    IF ~neg /\ MagGreater(mag, MaxInt64)
    THEN [val |-> MaxInt64, err |-> Err("ParseInt.range", 0, 0, s)]
    ELSE IF neg /\ MagGreater(mag, MinInt64Mag)
    THEN [val |-> <<"-">> \o MinInt64Mag, err |-> Err("ParseInt.range", 0, 0, s)]
    ELSE [val |-> IF neg /\ mag # <<"0">> THEN <<"-">> \o mag ELSE mag,
          err |-> NoError]

\* the result of ParseInt for sign neg and the text body behind the sign
ParseIntDigits(s, neg, body) ==
    IF body = <<>> \/ ~AllDigits(body)
    THEN [val |-> <<"0">>, err |-> Err("ParseInt.syntax", 0, 0, s)]
    ELSE ParseIntRange(s, neg, StripZeros(body))

\* strconv.ParseInt(s, 10, 64): the value as a canonical numeral, and the error
ParseInt(s) == ParseIntDigits(s, IsNegative(s), Unsigned(s))

\* strconv.ParseBool
ParseBool(s) ==
    IF s \in { <<"1">>, <<"t">>, <<"T">>, <<"T","R","U","E">>,
               <<"t","r","u","e">>, <<"T","r","u","e">> }
    THEN [val |-> TRUE, err |-> NoError]
    ELSE IF s \in { <<"0">>, <<"f">>, <<"F">>, <<"F","A","L","S","E">>,
                    <<"f","a","l","s","e">>, <<"F","a","l","s","e">> }
    THEN [val |-> FALSE, err |-> NoError]
    ELSE [val |-> FALSE, err |-> Err("ParseBool.syntax", 0, 0, s)]

RECURSIVE NatToStr(_)
NatToStr(k) ==
    IF k < 10 THEN <<Digits[k + 1]>>
    ELSE NatToStr(k \div 10) \o <<Digits[(k % 10) + 1]>>

IntToStr(k) == IF k < 0 THEN <<"-">> \o NatToStr(-k) ELSE NatToStr(k)

RECURSIVE StrToNat(_)
StrToNat(s) ==
    IF s = <<>> THEN 0
    ELSE 10 * StrToNat(SubSeq(s, 1, Len(s) - 1)) + DigitVal(s[Len(s)])

\* a digit string without its trailing zeros
StripTrailingZeros(s) ==
    IF \A i \in 1..Len(s) : s[i] = "0"
    THEN <<>>
    ELSE LET hi == CHOOSE i \in 1..Len(s) :
                       s[i] # "0" /\ \A j \in (i+1)..Len(s) : s[j] = "0"
         IN  SubSeq(s, 1, hi)

\* the number of zeros at the start of a digit string
LeadingZeros(s) ==
    IF \A i \in 1..Len(s) : s[i] = "0" THEN Len(s)
    ELSE (CHOOSE i \in 1..Len(s) : s[i] # "0" /\ \A j \in 1..(i-1) : s[j] = "0") - 1

\* the numeral of mantissa digits m (no leading or trailing zeros) and exponent e
FloatNumeralOf(neg, m, e) ==
    IF m = <<>>
    THEN (IF neg THEN <<"-">> ELSE <<>>) \o <<"0">>
    ELSE (IF neg THEN <<"-">> ELSE <<>>) \o m \o <<"e">> \o IntToStr(e)

\* the numeral of the digits all, of which lead are leading zeros and e0 stand
\* before the decimal point
FloatNumeralFrom(neg, all, lead, e0) ==
    FloatNumeralOf(neg, StripTrailingZeros(SubSeq(all, lead + 1, Len(all))), e0 - lead)

\* The canonical numeral of (-1)^neg * 0.m * 10^e: mantissa digits without
\* leading or trailing zeros, then "e", then the decimal exponent.
FloatNumeral(neg, ip, fp, ex) ==
    FloatNumeralFrom(neg, ip \o fp, LeadingZeros(ip \o fp), Len(ip) + ex)

Infinity(neg) == (IF neg THEN <<"-">> ELSE <<"+">>) \o <<"I","n","f">>

\* the decimal exponent of a canonical numeral whose "e" stands at position k
\* (0: there is none); -1 stands for every negative exponent
Exponent10At(num, k) ==
    IF k = 0 THEN 0
    ELSE IF num[k + 1] = "-" THEN -1
    ELSE StrToNat(SubSeq(num, k + 1, Len(num)))

\* the value of the digits of an exponent, capped at 9999
ExponentValue(eDig) ==
    IF eDig = <<>> THEN 0
    ELSE IF Len(StripZeros(eDig)) > 4 THEN 9999
    ELSE StrToNat(eDig)

\* the range check on the canonical numeral num
ParseFloatRange(s, neg, num) ==
    IF Exponent10At(num, Index(num, <<"e">>)) > 309
    THEN [val |-> Infinity(neg), err |-> Err("ParseFloat.range", 0, 0, s)]
    ELSE [val |-> num, err |-> NoError]

\* the syntax check on integer part ip, fraction fp and exponent digits eDig
ParseFloatParts(s, neg, ip, fp, hasExp, eNeg, eDig) ==
    IF \/ ip \o fp = <<>>
       \/ ~AllDigits(ip) \/ ~AllDigits(fp)
       \/ hasExp /\ (eDig = <<>> \/ ~AllDigits(eDig))
    THEN [val |-> <<"0">>, err |-> Err("ParseFloat.syntax", 0, 0, s)]
    ELSE ParseFloatRange(s, neg,
             FloatNumeral(neg, ip, fp, (IF eNeg THEN -1 ELSE 1) * ExponentValue(eDig)))

\* the mantissa mant cut at its decimal point, which stands at position dot
ParseFloatMantissa(s, neg, mant, dot, hasExp, expo) ==
    ParseFloatParts(s, neg,
                    IF dot = 0 THEN mant ELSE SubSeq(mant, 1, dot - 1),
                    IF dot = 0 THEN <<>> ELSE SubSeq(mant, dot + 1, Len(mant)),
                    hasExp, IsNegative(expo), Unsigned(expo))

\* the unsigned text body cut at its exponent sign, which stands at position ePos
ParseFloatExponent(s, neg, body, ePos) ==
    ParseFloatMantissa(s, neg,
                       IF ePos = 0 THEN body ELSE SubSeq(body, 1, ePos - 1),
                       Index(IF ePos = 0 THEN body ELSE SubSeq(body, 1, ePos - 1), <<".">>),
                       ePos # 0,
                       IF ePos = 0 THEN <<>> ELSE SubSeq(body, ePos + 1, Len(body)))

\* the special values, then the decimal numerals; low is body in lower case
ParseFloatLower(s, neg, body, low) ==
    IF low \in { <<"i","n","f">>, <<"i","n","f","i","n","i","t","y">> }
    THEN [val |-> Infinity(neg), err |-> NoError]
    ELSE IF low = <<"n","a","n">> /\ body = s
    THEN [val |-> <<"N","a","N">>, err |-> NoError]
    ELSE ParseFloatExponent(s, neg, body, Index(low, <<"e">>))

\* strconv.ParseFloat(s, 64) for decimal numerals, "inf", "infinity" and
\* "nan"; the decimal exponent is kept exactly (binary rounding is not
\* modelled), and values beyond 1e308 are a range error with an infinity.
ParseFloat(s) == ParseFloatLower(s, IsNegative(s), Unsigned(s), ToLower(Unsigned(s)))

(***************************************************************************)
(* Go maps.  Items is a function from value keys to values.  A Replaces    *)
(* map is a sequence of <<old, new>> pairs with distinct old strings; the  *)
(* order in which a range loop visits it is a permutation chosen by the    *)
(* caller of the operators below.                                          *)
(***************************************************************************)
EmptyMap == [k \in {} |-> NilV]

Put(m, k, v) == [x \in (DOMAIN m) \cup {k} |-> IF x = k THEN v ELSE m[x]]

HasKey(m, k) == k \in DOMAIN m

\* the least element of a non-empty set of numbers: the first index a loop meets
MinOf(S) == CHOOSE x \in S : \A y \in S : x <= y

Perms(n) == { f \in [1..n -> 1..n] : \A i, j \in 1..n : f[i] = f[j] => i = j }

\* the pairs of map m in the iteration order perm
IterOrder(m, perm) == [i \in 1..Len(m) |-> m[perm[i]]]

MapKeys(m) == { m[i][1] : i \in 1..Len(m) }

\* delete(m, k)
MapDelete(m, k) == SelectSeq(m, LAMBDA e : e[1] # k)

\* m[k] = v on a sequence-of-pairs map: an existing key keeps its place
MapSet(m, k, v) ==
    IF k \in MapKeys(m)
    THEN [i \in 1..Len(m) |-> IF m[i][1] = k THEN <<k, v>> ELSE m[i]]
    ELSE Append(m, <<k, v>>)

(***************************************************************************)
(* Rules                                                                   *)
(***************************************************************************)
booleanValueType == "boolean"
stringValueType  == "string"
arrayValueType   == "array"
intValueType     == "int"
floatValueType   == "float"

ExactMatch == 0
FuzzyMatch == 1

ValueTransform(matchMethod, replaces, separators) ==
    [MatchMethod |-> matchMethod, Replaces |-> replaces, Separators |-> separators]

NoTransform == ValueTransform(ExactMatch, <<>>, <<>>)

NormalizePattern(labs, matchMethod, separator, valueKey, transform, valueType, default) ==
    [Labels |-> labs, MatchMethod |-> matchMethod, Separator |-> separator,
     ValueKey |-> valueKey, ValueTransform |-> transform,
     ValueType |-> valueType, DefaultValue |-> default]

(***************************************************************************)
(* Validate                                                                *)
(***************************************************************************)
valueTypes == {stringValueType, booleanValueType, floatValueType, intValueType, arrayValueType}

\* rules p1 and p2 share a label keyword, ignoring case
SharedLabel(p1, p2) ==
    \E a \in 1..Len(p1.Labels), b \in 1..Len(p2.Labels) :
        EqualFold(p1.Labels[a], p2.Labels[b])

\* the first label keyword of p1, in order, that p2 has too, ignoring case
FirstSharedLabel(p1, p2) ==
    p1.Labels[MinOf({ x \in 1..Len(p1.Labels) :
                        \E b \in 1..Len(p2.Labels) : EqualFold(p1.Labels[x], p2.Labels[b]) })]

\* the error returned for rule i (p1) and a later rule j (p2) in conflict with it
ConflictError(p1, p2, i, j) ==
    IF EqualFold(p1.ValueKey, p2.ValueKey)
    THEN Err("DupKey", i, j, p1.ValueKey)
    ELSE Err("DupLabel", i, j, FirstSharedLabel(p1, p2))

\* the error for rule i, given the set bad of the later rules in conflict with it
FirstConflict(pats, i, bad) ==
    IF bad = {} THEN NoError
    ELSE ConflictError(pats[i], pats[MinOf(bad)], i, MinOf(bad))

\* PairError with strings.EqualFold replaced by ==
PairError_CaseSensitive(pats, i) ==
    LET p1  == pats[i]
        bad == { j \in (i+1)..Len(pats) :
                   \/ p1.ValueKey = pats[j].ValueKey
                   \/ \E a \in 1..Len(p1.Labels), b \in 1..Len(pats[j].Labels) :
                          p1.Labels[a] = pats[j].Labels[b] }
    IN  IF bad = {} THEN NoError
        ELSE LET j == CHOOSE x \in bad : \A y \in bad : x <= y
             IN  IF p1.ValueKey = pats[j].ValueKey
                 THEN Err("DupKey", i, j, p1.ValueKey)
                 ELSE Err("DupLabel", i, j, <<>>)

\* the inner loop over j > i: the first conflict of rule i with a later rule
PairError(pats, i) ==
    FirstConflict(pats, i, { j \in (i+1)..Len(pats) :
                               \/ EqualFold(pats[i].ValueKey, pats[j].ValueKey)
                               \/ SharedLabel(pats[i], pats[j]) })

\* RuleError without strings.TrimSpace on the key
RuleError_NoTrim(pats, i) ==
    LET p1 == pats[i]
    IN  IF p1.ValueKey = <<>> THEN Err("EmptyKey", i, 0, <<>>)
        ELSE IF p1.ValueType \notin valueTypes THEN Err("BadType", i, 0, <<>>)
        ELSE IF Len(p1.Labels) = 0 THEN Err("NoLabels", i, 0, <<>>)
        ELSE PairError(pats, i)

\* the body of the loop over i
RuleError(pats, i) ==
    LET p1 == pats[i]
    IN  IF TrimSpace(p1.ValueKey) = <<>> THEN Err("EmptyKey", i, 0, <<>>)
        ELSE IF p1.ValueType \notin valueTypes THEN Err("BadType", i, 0, <<>>)
        ELSE IF Len(p1.Labels) = 0 THEN Err("NoLabels", i, 0, <<>>)
        ELSE PairError(pats, i)

\* the error of the first rule of the set bad of the rules that have one
FirstRuleError(pats, bad) ==
    IF bad = {} THEN NoError ELSE RuleError(pats, MinOf(bad))

\* Validate on line separator sep and rules pats: the first error, or NoError
ValidateOf(sep, pats) ==
    IF sep = <<>> THEN Err("EmptySeparator", 0, 0, <<>>)
    ELSE IF Len(pats) = 0 THEN Err("NoPatterns", 0, 0, <<>>)
    ELSE FirstRuleError(pats, { i \in 1..Len(pats) : RuleError(pats, i) # NoError })

(***************************************************************************)
(* cleanLabel and the coercion of default values (spf13/cast)              *)
(***************************************************************************)
cleanLabel(label) ==
    IF label = <<>> THEN <<>> ELSE ToLower(TrimSpace(label))

\* the value of a decimal exponent with an optional minus sign
SignedNat(ex) == IF ex[1] = "-" THEN -StrToNat(Tail(ex)) ELSE StrToNat(ex)

\* the parts of the unsigned numeral body whose "e" stands at position k
FloatPartsAt(neg, body, k) ==
    IF k = 0 THEN [neg |-> neg, m |-> <<>>, e |-> 0]
    ELSE [neg |-> neg, m |-> SubSeq(body, 1, k - 1),
          e |-> SignedNat(SubSeq(body, k + 1, Len(body)))]

FloatPartsOf(neg, body) == FloatPartsAt(neg, body, Index(body, <<"e">>))

\* sign, mantissa digits m and exponent e of a finite float numeral 0.m * 10^e
FloatParts(num) == FloatPartsOf(IsNegative(num), Unsigned(num))

IsFinite(num) == num \notin { <<"+","I","n","f">>, <<"-","I","n","f">>, <<"N","a","N">> }

Zeros(k) == [i \in 1..k |-> "0"]

\* the digits before the decimal point of the number with parts p
IntegerDigits(p) ==
    IF p.e <= 0 THEN <<"0">>
    ELSE IF p.e >= Len(p.m) THEN p.m \o Zeros(p.e - Len(p.m))
    ELSE SubSeq(p.m, 1, p.e)

\* the digits behind the decimal point of the number with parts p
FractionDigits(p) ==
    IF p.e >= Len(p.m) THEN <<>>
    ELSE IF p.e <= 0 THEN Zeros(-p.e) \o p.m
    ELSE SubSeq(p.m, p.e + 1, Len(p.m))

\* an integer numeral of sign neg and digits ip
SignedDigits(neg, ip) == IF neg /\ ip # <<"0">> THEN <<"-">> \o ip ELSE ip

\* a decimal numeral of sign neg, integer digits ip and fraction digits fp
DecimalDigits(neg, ip, fp) ==
    (IF neg THEN <<"-">> ELSE <<>>) \o ip \o (IF fp = <<>> THEN <<>> ELSE <<".">> \o fp)

\* the integer part of the number with parts p
TruncParts(p) == SignedDigits(p.neg, IntegerDigits(p))

\* the number with parts p in decimal notation
FormatParts(p) == DecimalDigits(p.neg, IntegerDigits(p), FractionDigits(p))

\* the integer part of a finite float numeral, as an integer numeral
FloatTrunc(num) == TruncParts(FloatParts(num))

\* strconv.FormatFloat(f, 'f', -1, 64) of a finite float numeral
FormatFloat(num) == FormatParts(FloatParts(num))

IntToFloat(n) == FloatNumeral(IsNegative(n), Unsigned(n), <<>>, 0)

\* the value of a parse result, 0 when the parse failed
ValueOrZero(r) == IF r.err = NoError THEN r.val ELSE <<"0">>

\* cast.ToBool
castToBool(d) ==
    CASE d.t = "bool"   -> d.b
      [] d.t = "int"    -> d.n # <<"0">>
      [] d.t = "float"  -> d.n \notin { <<"0">>, <<"-","0">> }
      [] d.t = "string" -> ParseBool(d.s).val
      [] OTHER          -> FALSE

\* cast.ToInt; a string default is read as a plain decimal numeral (the
\* prefixed forms of base 0 are not modelled and give 0)
castToInt(d) ==
    CASE d.t = "int"    -> d.n
      [] d.t = "bool"   -> IF d.b THEN <<"1">> ELSE <<"0">>
      [] d.t = "float"  -> IF IsFinite(d.n) THEN FloatTrunc(d.n) ELSE <<"0">>
      [] d.t = "string" -> ValueOrZero(ParseInt(d.s))
      [] OTHER          -> <<"0">>

\* cast.ToFloat64
castToFloat64(d) ==
    CASE d.t = "float"  -> d.n
      [] d.t \in {"int", "bool"} ->
             IntToFloat(IF d.t = "int" THEN d.n ELSE IF d.b THEN <<"1">> ELSE <<"0">>)
      [] d.t = "string" -> ValueOrZero(ParseFloat(d.s))
      [] OTHER          -> <<"0">>

\* cast.ToString
castToString(d) ==
    CASE d.t = "string" -> d.s
      [] d.t = "bool"   -> IF d.b THEN <<"t","r","u","e">> ELSE <<"f","a","l","s","e">>
      [] d.t = "int"    -> d.n
      [] d.t = "float"  -> IF IsFinite(d.n) THEN FormatFloat(d.n) ELSE d.n
      [] OTHER          -> <<>>

\* the switch on pattern.ValueType in SetPatterns; no Go value has the
\* dynamic type types.Slice of go/types, so an array rule always gets the
\* empty list
CoerceDefault(valueType, d) ==
    CASE valueType = booleanValueType -> BoolV(castToBool(d))
      [] valueType = arrayValueType   -> ArrV(<<>>)
      [] valueType = intValueType     -> IntV(castToInt(d))
      [] valueType = floatValueType   -> FloatV(castToFloat64(d))
      [] OTHER                        -> StrV(castToString(d))

(***************************************************************************)
(* Parse, first loop: the lines of the text and the list kvLines           *)
(***************************************************************************)
labelValue(key, label, value, valueType, transform) ==
    [key |-> key, label |-> label, value |-> value,
     valueType |-> valueType, valueTransform |-> transform]

\* strings.TrimSpace on every element
TrimAll(parts) == [i \in 1..Len(parts) |-> TrimSpace(parts[i])]

\* the trimmed non-blank lines of the text
TextLines(text, sep) ==
    SelectSeq(TrimAll(Split(text, sep)), LAMBDA l : l # <<>>)

\* no known label is a prefix of the lower-cased line (a nil map has no label)
IsPureText(labs, lineText) ==
    ~\E label \in labs.set : HasPrefix(ToLower(lineText), label)

\* the comparison of the label of the line with one keyword
LabelMatches(matchMethod, keyword, label) ==
    IF matchMethod = FuzzyMatch
    THEN Contains(label, ToLower(keyword))
    ELSE EqualFold(label, keyword)

\* the test of one keyword of one rule against the line
KeywordMatches(pattern, keyword, lineText) ==
    /\ Contains(lineText, pattern.Separator)
    /\ LabelMatches(pattern.MatchMethod, keyword,
                    TrimSpace(Split(lineText, pattern.Separator)[1]))

RuleMatches(pattern, lineText) ==
    \E k \in 1..Len(pattern.Labels) : KeywordMatches(pattern, pattern.Labels[k], lineText)

\* SegmentsRecord with the value segments[1] of an earlier revision in place of
\* the joined segments[1:]
SegmentsRecord_SecondSegment(pattern, segments) ==
    labelValue(pattern.ValueKey,
               TrimSpace(segments[1]),
               TrimSpace(segments[2]),
               pattern.ValueType,
               ValueTransform(pattern.ValueTransform.MatchMethod,
                              pattern.ValueTransform.Replaces,
                              pattern.ValueTransform.Separators))

\* the record lv for the segments of the line cut at the rule's separator
SegmentsRecord(pattern, segments) ==
    labelValue(pattern.ValueKey,
               TrimSpace(segments[1]),
               TrimSpace(Join(Tail(segments), pattern.Separator)),
               pattern.ValueType,
               ValueTransform(pattern.ValueTransform.MatchMethod,
                              pattern.ValueTransform.Replaces,
                              pattern.ValueTransform.Separators))

\* the record lv filled in for the first matching rule
MatchedRecord(pattern, lineText) ==
    SegmentsRecord(pattern, Split(lineText, pattern.Separator))

\* the least element of a set of positive numbers, 0 for the empty set
FirstOrZero(S) == IF S = {} THEN 0 ELSE MinOf(S)

\* FirstMatch without the break out of the loop over the rules: the last
\* matching rule fills lv
FirstMatch_LastRule(pats, lineText) ==
    LET S == { i \in 1..Len(pats) : RuleMatches(pats[i], lineText) }
    IN  IF S = {} THEN 0 ELSE CHOOSE x \in S : \A y \in S : y <= x

\* index of the first rule, in declaration order, that matches the line; 0 if none
FirstMatch(pats, lineText) ==
    FirstOrZero({ i \in 1..Len(pats) : RuleMatches(pats[i], lineText) })

\* Continuation copying the first record of the list in place of the last
Continuation_FirstRecord(kv, lineText) ==
    labelValue(kv[1].key, kv[1].label, lineText, kv[1].valueType, kv[1].valueTransform)

\* the record appended for a plain-text line: a copy of the last record
Continuation(kv, lineText) ==
    LET m == Len(kv)
    IN  labelValue(kv[m].key, kv[m].label, lineText, kv[m].valueType, kv[m].valueTransform)

\* MatchLine without the assignment appendText = false
MatchLine_KeepsAppendText(pats, st, lineText, pure, i) ==
    IF i # 0
    THEN [kv |-> Append(st.kv, MatchedRecord(pats[i], lineText)), appendText |-> TRUE]
    ELSE [kv |-> st.kv, appendText |-> st.appendText]

\* the loop over the rules and what follows it: i is the first matching rule
\* (0: none), pure the outcome of the pure-text check
MatchLine(pats, st, lineText, pure, i) ==
    IF i # 0
    THEN [kv |-> Append(st.kv, MatchedRecord(pats[i], lineText)), appendText |-> TRUE]
    ELSE [kv |-> st.kv, appendText |-> IF ~pure THEN FALSE ELSE st.appendText]

\* AppendContinuation that continues string and array fields only
AppendContinuation_TextOnly(st, lineText) ==
    IF st.kv[Len(st.kv)].valueType \in {stringValueType, arrayValueType}
    THEN [st EXCEPT !.kv = Append(@, Continuation(@, lineText))]
    ELSE st

\* st with the continuation record of the line appended
AppendContinuation(st, lineText) ==
    [st EXCEPT !.kv = Append(@, Continuation(@, lineText))]

\* ScanClassified with a dropped line clearing appendText
ScanClassified_DropClearsFlag(pats, st, lineText, pure) ==
    IF pure /\ st.appendText /\ Len(st.kv) = 0
    THEN [st EXCEPT !.appendText = FALSE]
    ELSE MatchLine(pats,
                   IF pure /\ st.appendText THEN AppendContinuation(st, lineText) ELSE st,
                   lineText, pure, FirstMatch(pats, lineText))

\* one iteration of the loop, given the outcome pure of the pure-text check
ScanClassified(pats, st, lineText, pure) ==
    IF pure /\ st.appendText /\ Len(st.kv) = 0
    THEN st
    ELSE MatchLine(pats,
                   IF pure /\ st.appendText THEN AppendContinuation(st, lineText) ELSE st,
                   lineText, pure, FirstMatch(pats, lineText))

\* ScanLine with the test m > 1 of an earlier revision in place of m > 0
ScanLine_NeedsTwoRecords(labs, pats, st, lineText) ==
    LET pure == IsPureText(labs, lineText)
        cont == pure /\ st.appendText
    IN  IF cont /\ Len(st.kv) <= 1
        THEN st
        ELSE LET kv1 == IF cont THEN Append(st.kv, Continuation(st.kv, lineText))
                        ELSE st.kv
                 i   == FirstMatch(pats, lineText)
             IN  IF i # 0
                 THEN [kv |-> Append(kv1, MatchedRecord(pats[i], lineText)),
                       appendText |-> TRUE]
                 ELSE [kv |-> kv1,
                       appendText |-> IF ~pure THEN FALSE ELSE st.appendText]

\* one iteration of the loop over the lines; st = [kv, appendText]
ScanLine(labs, pats, st, lineText) ==
    ScanClassified(pats, st, lineText, IsPureText(labs, lineText))

RECURSIVE ScanLines(_, _, _, _)
ScanLines(labs, pats, st, lines) ==
    IF lines = <<>> THEN st
    ELSE ScanLines(labs, pats, ScanLine(labs, pats, st, lines[1]), Tail(lines))

\* kvLines after the first loop
KvLines(labs, pats, text, sep) ==
    ScanLines(labs, pats, [kv |-> <<>>, appendText |-> TRUE], TextLines(text, sep)).kv

(***************************************************************************)
(* Parse, second loop: value transform, cast and merge                     *)
(***************************************************************************)
\* the map built from the lower-cased keys, visiting Replaces in order perm
RECURSIVE LowerKeys(_, _)
LowerKeys(pairs, acc) ==
    IF pairs = <<>> THEN acc
    ELSE LowerKeys(Tail(pairs), MapSet(acc, ToLower(pairs[1][1]), pairs[1][2]))

\* SortByLenDesc without the sort: the keys stay in iteration order
SortByLenDesc_Unsorted(pairs) == pairs

\* sort.Slice by decreasing key length
RECURSIVE SortByLenDesc(_)
SortByLenDesc(pairs) ==
    IF pairs = <<>> THEN <<>>
    ELSE LET longest == CHOOSE i \in 1..Len(pairs) :
                            /\ \A j \in 1..Len(pairs) : Len(pairs[j][1]) <= Len(pairs[i][1])
                            /\ \A j \in 1..(i-1) : Len(pairs[j][1]) < Len(pairs[i][1])
         IN  <<pairs[longest]>> \o
             SortByLenDesc([j \in 1..(Len(pairs) - 1) |->
                               IF j < longest THEN pairs[j] ELSE pairs[j + 1]])

\* strings.NewReplacer(oldNews...).Replace(s): one pass from the left; at each
\* position the first pair in argument order whose old string occurs there
\* is applied (old strings are non-empty: SetPatterns deletes the empty key)
RECURSIVE Replace(_, _)
Replace(s, oldNews) ==
    IF s = <<>> THEN <<>>
    ELSE LET hits == { k \in 1..Len(oldNews) :
                         oldNews[k][1] # <<>> /\ MatchAt(s, 1, oldNews[k][1]) }
         IN  IF hits = {}
             THEN <<s[1]>> \o Replace(Tail(s), oldNews)
             ELSE LET k == CHOOSE x \in hits : \A y \in hits : x <= y
                  IN  oldNews[k][2] \o
                      Replace(SubSeq(s, Len(oldNews[k][1]) + 1, Len(s)), oldNews)

\* a permutation of 1..n read off a permutation of a larger range
RestrictOrder(perm, n) == SelectSeq(perm, LAMBDA x : x <= n)

\* TransformValue without the strings.TrimSpace after the replacements
TransformValue_NoTrim(line, perm) ==
    LET vt == line.valueTransform
    IN  IF Len(vt.Replaces) = 0
        THEN line.value
        ELSE LET fuzzy    == vt.MatchMethod = FuzzyMatch
                 rawValue == IF fuzzy THEN ToLower(line.value) ELSE line.value
                 visited  == IterOrder(vt.Replaces, RestrictOrder(perm, Len(vt.Replaces)))
                 replaces == IF fuzzy THEN LowerKeys(visited, <<>>) ELSE visited
             IN  Replace(rawValue, SortByLenDesc(replaces))

\* TransformValue with the keys of a fuzzy transform left in their case
TransformValue_KeysNotLowered(line, perm) ==
    LET vt == line.valueTransform
    IN  IF Len(vt.Replaces) = 0
        THEN line.value
        ELSE LET fuzzy    == vt.MatchMethod = FuzzyMatch
                 rawValue == IF fuzzy THEN ToLower(line.value) ELSE line.value
                 visited  == IterOrder(vt.Replaces, RestrictOrder(perm, Len(vt.Replaces)))
             IN  TrimSpace(Replace(rawValue, SortByLenDesc(visited)))

\* rawValue after the replacements of the record's transform; perm is the
\* order in which the range loops visit the Replaces map
TransformValue(line, perm) ==
    LET vt == line.valueTransform
    IN  IF Len(vt.Replaces) = 0
        THEN line.value
        ELSE LET fuzzy    == vt.MatchMethod = FuzzyMatch
                 rawValue == IF fuzzy THEN ToLower(line.value) ELSE line.value
                 visited  == IterOrder(vt.Replaces, RestrictOrder(perm, Len(vt.Replaces)))
                 replaces == IF fuzzy THEN LowerKeys(visited, <<>>) ELSE visited
             IN  TrimSpace(Replace(rawValue, SortByLenDesc(replaces)))

\* stringx.Split of github.com/hiscaler/gox: the value cut at every
\* occurrence of a separator token, each element trimmed; no element for
\* the empty value
RECURSIVE CutAtTokens(_, _, _)
CutAtTokens(s, seps, cur) ==
    IF s = <<>> THEN <<cur>>
    ELSE LET hits == { k \in 1..Len(seps) : seps[k] # <<>> /\ MatchAt(s, 1, seps[k]) }
         IN  IF hits = {}
             THEN CutAtTokens(Tail(s), seps, Append(cur, s[1]))
             ELSE LET k == CHOOSE x \in hits : \A y \in hits : x <= y
                  IN  <<cur>> \o CutAtTokens(SubSeq(s, Len(seps[k]) + 1, Len(s)), seps, <<>>)

stringxSplit(s, seps) ==
    IF s = <<>> THEN <<>>
    ELSE LET parts == CutAtTokens(s, seps, <<>>)
         IN  [i \in 1..Len(parts) |-> TrimSpace(parts[i])]

\* value and err after value, err = strconv.ParseBool(...), ParseInt(...), ParseFloat(...)
BoolCast(r) == [value |-> BoolV(r.val), err |-> r.err]

\* IntCast storing zero whenever the conversion returned an error
IntCast_ZeroOnError(r) ==
    [value |-> IntV(IF r.err # NoError THEN <<"0">> ELSE r.val), err |-> r.err]

IntCast(r) == [value |-> IntV(r.val), err |-> r.err]

FloatCast(r) == [value |-> FloatV(r.val), err |-> r.err]

\* the switch on the lower-cased value of a boolean field
CastBool(low, err) ==
    IF low \in { <<"y">>, <<"y","e","s">> }
    THEN [value |-> BoolV(TRUE), err |-> err]
    ELSE IF low \in { <<"n">>, <<"n","o">> }
    THEN [value |-> BoolV(FALSE), err |-> err]
    ELSE BoolCast(ParseBool(low))

\* CastValue without strings.ToLower in the boolean case
CastValue_CaseSensitive(valueType, seps, rawValue, err) ==
    CASE valueType = booleanValueType ->
            IF rawValue = <<>> THEN [value |-> BoolV(FALSE), err |-> err]
            ELSE IF rawValue \in { <<"y">>, <<"y","e","s">> }
            THEN [value |-> BoolV(TRUE), err |-> err]
            ELSE IF rawValue \in { <<"n">>, <<"n","o">> }
            THEN [value |-> BoolV(FALSE), err |-> err]
            ELSE [value |-> BoolV(ParseBool(rawValue).val), err |-> ParseBool(rawValue).err]
      [] valueType = intValueType ->
            [value |-> IntV(ParseInt(rawValue).val), err |-> ParseInt(rawValue).err]
      [] valueType = floatValueType ->
            [value |-> FloatV(ParseFloat(rawValue).val), err |-> ParseFloat(rawValue).err]
      [] valueType = arrayValueType ->
            [value |-> ArrV(stringxSplit(rawValue, seps)), err |-> err]
      [] OTHER ->
            [value |-> StrV(rawValue), err |-> err]

\* CastValue with the separators left out of the call of stringx.Split
CastValue_NoSeparators(valueType, seps, rawValue, err) ==
    CASE valueType = booleanValueType ->
            IF rawValue = <<>> THEN [value |-> BoolV(FALSE), err |-> err]
            ELSE LET low == ToLower(rawValue)
                 IN  IF low \in { <<"y">>, <<"y","e","s">> }
                     THEN [value |-> BoolV(TRUE), err |-> err]
                     ELSE IF low \in { <<"n">>, <<"n","o">> }
                     THEN [value |-> BoolV(FALSE), err |-> err]
                     ELSE [value |-> BoolV(ParseBool(low).val), err |-> ParseBool(low).err]
      [] valueType = intValueType ->
            [value |-> IntV(ParseInt(rawValue).val), err |-> ParseInt(rawValue).err]
      [] valueType = floatValueType ->
            [value |-> FloatV(ParseFloat(rawValue).val), err |-> ParseFloat(rawValue).err]
      [] valueType = arrayValueType ->
            [value |-> ArrV(stringxSplit(rawValue, <<>>)), err |-> err]
      [] OTHER ->
            [value |-> StrV(rawValue), err |-> err]

\* the switch on line.valueType; err is the variable err of Parse, which the
\* boolean default branch, the int case and the float case assign
CastValue(valueType, seps, rawValue, err) ==
    CASE valueType = booleanValueType ->
            IF rawValue = <<>> THEN [value |-> BoolV(FALSE), err |-> err]
            ELSE CastBool(ToLower(rawValue), err)
      [] valueType = intValueType -> IntCast(ParseInt(rawValue))
      [] valueType = floatValueType -> FloatCast(ParseFloat(rawValue))
      [] valueType = arrayValueType ->
            [value |-> ArrV(stringxSplit(rawValue, seps)), err |-> err]
      [] OTHER ->
            [value |-> StrV(rawValue), err |-> err]

\* MergeValue joining a string to the one held even when that is empty
MergeValue_AlwaysJoin(items, key, valueType, value) ==
    IF HasKey(items, key)
    THEN CASE valueType = stringValueType ->
                 Put(items, key, StrV(items[key].s \o <<"\n">> \o value.s))
           [] valueType = arrayValueType ->
                 Put(items, key, ArrV(items[key].a \o value.a))
           [] OTHER ->
                 Put(items, key, value)
    ELSE Put(items, key, value)

\* the merge of one cast value into Items
MergeValue(items, key, valueType, value) ==
    IF HasKey(items, key)
    THEN CASE valueType = stringValueType ->
                 LET v == items[key]
                 IN  IF v # StrV(<<>>)
                     THEN Put(items, key, StrV(v.s \o <<"\n">> \o value.s))
                     ELSE Put(items, key, value)
           [] valueType = arrayValueType ->
                 Put(items, key, ArrV(items[key].a \o value.a))
           [] OTHER ->
                 Put(items, key, value)
    ELSE Put(items, key, value)

\* MergeCast leaving the value held alone when the cast failed
MergeCast_SkipFailed(st, line, c) ==
    [items  |-> IF c.err # NoError THEN st.items
                ELSE MergeValue(st.items, line.key, line.valueType, c.value),
     errors |-> IF c.err # NoError THEN Append(st.errors, c.err) ELSE st.errors,
     err    |-> c.err]

\* the end of an iteration: the error check and the merge of the cast result c
MergeCast(st, line, c) ==
    [items  |-> MergeValue(st.items, line.key, line.valueType, c.value),
     errors |-> IF c.err # NoError THEN Append(st.errors, c.err) ELSE st.errors,
     err    |-> c.err]

\* one iteration of the loop over kvLines; st = [items, errors, err]
ApplyLine(st, line, perm) ==
    MergeCast(st, line,
              CastValue(line.valueType, line.valueTransform.Separators,
                        TransformValue(line, perm), st.err))

\* the iteration order of record i: ords gives one where the order can matter
OrderOf(ords, i) ==
    IF i \in DOMAIN ords THEN ords[i] ELSE [k \in 1..MaxReplaces |-> k]

RECURSIVE ApplyLines(_, _, _, _)
ApplyLines(st, kv, i, ords) ==
    IF i > Len(kv) THEN st
    ELSE ApplyLines(ApplyLine(st, kv[i], OrderOf(ords, i)), kv, i + 1, ords)

\* the records whose Replaces map has more than one entry
NeedOrder(kv) == { i \in 1..Len(kv) : Len(kv[i].valueTransform.Replaces) >= 2 }

\* n.Items and n.Errors of the state st of the second loop over the records kv
LoopResult(st, kv) == [items |-> st.items, errors |-> st.errors, kv |-> kv]

\* the outcomes of the second loop over the records kv, one for every order in
\* which the range loops can visit the Replaces maps
ApplyResults(kv, items) ==
    { LoopResult(ApplyLines([items |-> items, errors |-> <<>>, err |-> NoError],
                            kv, 1, ords), kv) :
        ords \in [NeedOrder(kv) -> Perms(MaxReplaces)] }

\* Parse behind the call of Validate, which returned err
ParseValidated(err, labs, pats, text, sep, items) ==
    IF err # NoError
    THEN { [items |-> items, errors |-> <<err>>, kv |-> <<>>] }
    ELSE ApplyResults(KvLines(labs, pats, text, sep), items)

\* the values Items, Errors and kvLines can have at the return of Parse
ParseResults(labs, pats, text, sep, items) ==
    IF Len(pats) = 0 \/ text = <<>>
    THEN { [items |-> items, errors |-> <<>>, kv |-> <<>>] }
    ELSE ParseValidated(ValidateOf(sep, pats), labs, pats, text, sep, items)

(***************************************************************************)
(* The engine                                                              *)
(***************************************************************************)
VARIABLES
    labels,        \* n.labels: [isNil, set]; a nil map has isNil = TRUE
    Errors,        \* n.Errors
    OriginalText,  \* n.OriginalText
    Separator,     \* n.Separator
    Patterns,      \* n.Patterns
    Items,         \* n.Items
    panicked,      \* a run-time panic has ended the run
    lastOp,        \* the operation called last
    ret,           \* what that operation returned: [err, ok]
    parses,        \* Parse calls since Items was last replaced
    kvLines,       \* the list kvLines of the last Parse on the present Items
    inp,           \* the arguments and the call order of a scripted session
    pc,            \* the next call of the session
    shared,        \* the rule lists in memory that engines running side by side were given
    engines,       \* the engines running side by side, each with its position
    faulted        \* the run time has ended the program on a concurrent access

engine == <<labels, Errors, OriginalText, Separator, Patterns, Items,
            panicked, lastOp, ret, parses, kvLines>>

vars == <<labels, Errors, OriginalText, Separator, Patterns, Items,
          panicked, lastOp, ret, parses, kvLines, inp, pc, shared, engines, faulted>>

NoRet == [err |-> NoError, ok |-> TRUE]

\* the return value of an operation that returns the error err
Returned(err) == [err |-> err, ok |-> err = NoError]

\* NewNormalizer
NewNormalizer ==
    /\ labels = [isNil |-> TRUE, set |-> {}]
    /\ Errors = <<>>
    /\ OriginalText = <<>>
    /\ Separator = <<"\n">>
    /\ Patterns = <<>>
    /\ Items = EmptyMap
    /\ panicked = FALSE
    /\ lastOp = "NewNormalizer"
    /\ ret = NoRet
    /\ parses = 0
    /\ kvLines = <<>>

SetSeparator(sep) ==
    /\ ~panicked
    /\ Separator' = sep
    /\ lastOp' = "SetSeparator"
    /\ ret' = NoRet
    /\ UNCHANGED <<labels, Errors, OriginalText, Patterns, Items, panicked, parses, kvLines>>

SetOriginalText(text) ==
    /\ ~panicked
    /\ OriginalText' = TrimSpace(text)
    /\ Items' = EmptyMap
    /\ Errors' = <<>>
    /\ lastOp' = "SetOriginalText"
    /\ ret' = NoRet
    /\ parses' = 0
    /\ kvLines' = <<>>
    /\ UNCHANGED <<labels, Separator, Patterns, panicked>>

\* the non-empty cleaned labels of a list
CleanedLabels(labs) ==
    { cleanLabel(labs[i]) : i \in 1..Len(labs) } \ { <<>> }

SetLabels(labs) ==
    /\ ~panicked
    /\ labels' = [isNil |-> FALSE, set |-> CleanedLabels(labs)]
    /\ lastOp' = "SetLabels"
    /\ ret' = NoRet
    /\ UNCHANGED <<Errors, OriginalText, Separator, Patterns, Items, panicked, parses, kvLines>>

\* what the loop of SetPatterns writes back into element i of the slice
NormalizedPattern(pattern) ==
    [pattern EXCEPT
        !.Separator = IF pattern.Separator = <<>> THEN <<":">> ELSE pattern.Separator,
        !.ValueTransform.Replaces = MapDelete(pattern.ValueTransform.Replaces, <<>>)]

\* the slice after the iterations 1..w of the loop of SetPatterns
NormalizedUpTo(patterns, w) ==
    [i \in 1..Len(patterns) |->
        IF i <= w THEN NormalizedPattern(patterns[i]) ELSE patterns[i]]

\* the map items built by the loop of SetPatterns over rules 1..k
RECURSIVE DefaultItems(_, _)
DefaultItems(patterns, k) ==
    IF k = 0 THEN EmptyMap
    ELSE Put(DefaultItems(patterns, k - 1), patterns[k].ValueKey,
             CoerceDefault(patterns[k].ValueType, patterns[k].DefaultValue))

\* the rules whose labels make SetPatterns write into n.labels
WritesLabel(patterns, labs) ==
    { i \in 1..Len(patterns) : CleanedLabels(patterns[i].Labels) \ labs.set # {} }

\* SetPatterns; a write into the nil map n.labels is a run-time panic, which
\* leaves the rules before it normalized and Items and Errors as they were
SetPatterns(patterns) ==
    /\ ~panicked
    /\ lastOp' = "SetPatterns"
    /\ ret' = NoRet
    /\ IF labels.isNil /\ WritesLabel(patterns, labels) # {}
       THEN /\ Patterns' = NormalizedUpTo(patterns, MinOf(WritesLabel(patterns, labels)))
            /\ panicked' = TRUE
            /\ UNCHANGED <<labels, Errors, OriginalText, Separator, Items, parses, kvLines>>
       ELSE /\ Patterns' = NormalizedUpTo(patterns, Len(patterns))
            /\ labels' = [labels EXCEPT !.set =
                             @ \cup UNION { CleanedLabels(patterns[i].Labels) :
                                            i \in 1..Len(patterns) }]
            /\ Items' = DefaultItems(patterns, Len(patterns))
            /\ Errors' = <<>>
            /\ parses' = 0
            /\ kvLines' = <<>>
            /\ UNCHANGED <<OriginalText, Separator, panicked>>

Parse ==
    /\ ~panicked
    /\ parses < MaxParses
    /\ \E r \in ParseResults(labels, Patterns, OriginalText, Separator, Items) :
         /\ Items' = r.items
         /\ Errors' = r.errors
         /\ kvLines' = r.kv
    /\ parses' = parses + 1
    /\ lastOp' = "Parse"
    /\ ret' = NoRet
    /\ UNCHANGED <<labels, OriginalText, Separator, Patterns, panicked>>

\* Validate emptying the error list
Validate_ClearsErrors ==
    /\ ~panicked
    /\ lastOp' = "Validate"
    /\ ret' = Returned(ValidateOf(Separator, Patterns))
    /\ Errors' = <<>>
    /\ UNCHANGED <<labels, OriginalText, Separator, Patterns, Items, panicked, parses, kvLines>>

Validate ==
    /\ ~panicked
    /\ lastOp' = "Validate"
    /\ ret' = Returned(ValidateOf(Separator, Patterns))
    /\ UNCHANGED <<labels, Errors, OriginalText, Separator, Patterns, Items, panicked, parses, kvLines>>

\* Ok with the test == 0 replaced by <= 1
OkOf_AtMostOne(errors) == Len(errors) <= 1

\* the value Ok returns for the error list errors
OkOf(errors) == Len(errors) = 0

Ok ==
    /\ ~panicked
    /\ lastOp' = "Ok"
    /\ ret' = [err |-> NoError, ok |-> OkOf(Errors)]
    /\ UNCHANGED <<labels, Errors, OriginalText, Separator, Patterns, Items, panicked, parses, kvLines>>

(***************************************************************************)
(* Rules and texts of the README example and of the tests                  *)
(***************************************************************************)
NameKey == <<"n","a","m","e">>
AgeKey  == <<"a","g","e">>
FunKey  == <<"f","u","n">>
MyFun   == <<"m","y"," ","f","u","n">>
Colon   == <<":">>
NewLine == <<"\n">>
EscapedNewLine == <<"\\","n">>

NameRule(default) ==
    NormalizePattern(<<NameKey>>, ExactMatch, Colon, NameKey, NoTransform,
                     stringValueType, StrV(default))

AgeRule ==
    NormalizePattern(<<AgeKey>>, ExactMatch, Colon, AgeKey,
                     ValueTransform(ExactMatch, << <<<<"y","e","a","r","s">>, <<>> >> >>, <<>>),
                     intValueType, IntV(<<"1","0">>))

FunRule ==
    NormalizePattern(<<MyFun>>, ExactMatch, Colon, FunKey,
                     ValueTransform(ExactMatch, <<>>, << <<",">>, <<"a","n","d">> >>),
                     arrayValueType, ArrV(<<>>))

ExamplePatterns == <<NameRule(<<>>), AgeRule, FunRule>>

ExampleLabels == <<NameKey, AgeKey, MyFun>>

ExampleLines(name, age) ==
    << NameKey \o Colon \o name,
       AgeKey \o Colon \o <<" ">> \o age \o <<" ">> \o <<"y","e","a","r","s">>,
       MyFun \o Colon \o <<"B","a","s","k","e","t","b","a","l","l",",","F","o","o","t","b","a","l","l"," ","a","n","d"," ","S","w","i","m","m","i","n","g">> >>

John == <<"J","o","h","n">>
Twelve == <<"1","2">>
Sports == << <<"B","a","s","k","e","t","b","a","l","l">>, <<"F","o","o","t","b","a","l","l">>, <<"S","w","i","m","m","i","n","g">> >>

(***************************************************************************)
(* Spec: any sequence of calls on one engine, with arguments from small    *)
(* sets                                                                    *)
(***************************************************************************)
\* no engines run side by side
NoInstances ==
    /\ shared = <<>>
    /\ engines = <<>>
    /\ faulted = FALSE

NoInput == [text |-> <<>>, sep |-> <<>>, labs |-> <<>>, pats |-> <<>>, calls |-> <<>>]

\* two rules with the same key: a rule set Validate rejects
DupKeyPatterns == <<NameRule(<<>>), [AgeRule EXCEPT !.ValueKey = <<"N","a","m","e">>]>>

FreeTexts == { <<>>,
               Join(<<<<"n","a","m","e",":","J","o","h","n">>, <<"S","m","i","t","h">>>>, NewLine),
               Join(<<<<"n","a","m","e",":","J","o","h","n">>, <<"n","a","m","e"," ","S","m","i","t","h">>>>, NewLine),
               Join(ExampleLines(John, Twelve), NewLine) }

FreeSeparators == { NewLine, <<>> }

FreeLabels == { ExampleLabels, <<>> }

FreePatterns == { ExamplePatterns, <<NameRule(<<"N","/","A">>)>>, DupKeyPatterns, <<>> }

Init ==
    /\ NewNormalizer
    /\ NoInstances
    /\ inp = NoInput
    /\ pc = 0

Next ==
    \/ \E sep \in FreeSeparators : SetSeparator(sep) /\ UNCHANGED <<inp, pc, shared, engines, faulted>>
    \/ \E text \in FreeTexts : SetOriginalText(text) /\ UNCHANGED <<inp, pc, shared, engines, faulted>>
    \/ \E labs \in FreeLabels : SetLabels(labs) /\ UNCHANGED <<inp, pc, shared, engines, faulted>>
    \/ \E patterns \in FreePatterns : SetPatterns(patterns) /\ UNCHANGED <<inp, pc, shared, engines, faulted>>
    \/ Parse /\ UNCHANGED <<inp, pc, shared, engines, faulted>>
    \/ Validate /\ UNCHANGED <<inp, pc, shared, engines, faulted>>
    \/ Ok /\ UNCHANGED <<inp, pc, shared, engines, faulted>>

Spec == Init /\ [][Next]_vars

(***************************************************************************)
(* Scripted sessions: one engine, the calls inp.calls in order, with the   *)
(* arguments of inp.  The specifications below differ in the sessions they *)
(* start from.                                                             *)
(***************************************************************************)
Session(text, sep, labs, pats, calls) ==
    [text |-> text, sep |-> sep, labs |-> labs, pats |-> pats, calls |-> calls]

\* the call order of TestNormalizer_Parse and of the README
TestOrder == <<"SetOriginalText", "SetSeparator", "SetLabels", "SetPatterns",
               "Parse", "Validate", "Ok">>

Call(op) ==
    /\ pc <= Len(inp.calls)
    /\ inp.calls[pc] = op
    /\ pc' = pc + 1
    /\ UNCHANGED <<inp, shared, engines, faulted>>

NextSession ==
    \/ Call("SetOriginalText") /\ SetOriginalText(inp.text)
    \/ Call("SetSeparator") /\ SetSeparator(inp.sep)
    \/ Call("SetLabels") /\ SetLabels(inp.labs)
    \/ Call("SetPatterns") /\ SetPatterns(inp.pats)
    \/ Call("Parse") /\ Parse
    \/ Call("Validate") /\ Validate
    \/ Call("Ok") /\ Ok

\* all strings over alphabet A of length at most k
RECURSIVE Strings(_, _)
Strings(A, k) ==
    IF k = 0 THEN { <<>> }
    ELSE LET S == Strings(A, k - 1)
         IN  S \cup { Append(x, c) : x \in S, c \in A }

\* all sequences over the set E of length at most k
RECURSIVE SeqsUpTo(_, _)
SeqsUpTo(E, k) ==
    IF k = 0 THEN { <<>> }
    ELSE LET S == SeqsUpTo(E, k - 1)
         IN  S \cup { Append(x, e) : x \in S, e \in E }

(***************************************************************************)
(* SpecExample: the README example, with several names, ages and line      *)
(* separators                                                              *)
(***************************************************************************)
ExampleNames == { John, <<"A","l"," ","B">>, <<" ","a","n","n"," ">>, <<>> }

ExampleAges == { Twelve, <<"7">>, <<"0","3","0">>, <<"-","4">> }

ExampleSeparators == { NewLine, EscapedNewLine, <<"|">> }

ExampleSessions ==
    { Session(Join(ExampleLines(name, age), sep), sep, ExampleLabels,
              ExamplePatterns, TestOrder) :
        name \in ExampleNames, age \in ExampleAges, sep \in ExampleSeparators }

InitExample ==
    /\ NewNormalizer
    /\ NoInstances
    /\ inp \in ExampleSessions
    /\ pc = 1

SpecExample == InitExample /\ [][NextSession]_vars

(***************************************************************************)
(* SpecValidate: Validate on every rule set of at most MaxRules rules over *)
(* a few keys, types and label lists                                       *)
(***************************************************************************)
ValidateKeys == { <<"k">>, <<"K">>, <<"q">>, <<" ">> }

ValidateTypes == { stringValueType, "text" }

ValidateLabels == { <<>>, << <<"a">> >>, << <<"A">>, <<"b">> >> }

ValidateRules ==
    { NormalizePattern(labs, ExactMatch, Colon, key, NoTransform, type, NilV) :
        labs \in ValidateLabels, key \in ValidateKeys, type \in ValidateTypes }

ValidateSessions ==
    { Session(<<"a",":","x">>, sep, <<>>, pats,
              <<"SetLabels", "SetPatterns", "SetSeparator", "SetOriginalText",
                "Validate", "Parse", "Ok">>) :
        sep \in { NewLine, <<>> }, pats \in SeqsUpTo(ValidateRules, MaxRules) }

InitValidate ==
    /\ NewNormalizer
    /\ NoInstances
    /\ inp \in ValidateSessions
    /\ pc = 1

SpecValidate == InitValidate /\ [][NextSession]_vars

(***************************************************************************)
(* Sessions with one rule, key and label "f", and the one-line text        *)
(* "f:" followed by a field value                                          *)
(***************************************************************************)
FieldKey == <<"f">>

FieldRule(valueType, transform, default) ==
    NormalizePattern(<<FieldKey>>, ExactMatch, Colon, FieldKey, transform, valueType, default)

FieldSession(raw, rule) ==
    Session(FieldKey \o Colon \o raw, NewLine, <<>>, <<rule>>, TestOrder)

\* the value of the field as Parse extracts it from the text of the session
FieldValue == TrimSpace(SubSeq(inp.text, 3, Len(inp.text)))

\* SpecBool: a boolean rule with default true
BoolAlphabet == { "y", "Y", "e", "s", "n", "N", "o", "t", "T", "f", "1", "0", "x", " " }

BoolWords == { <<"t","r","u","e">>, <<"T","R","U","E">>, <<"T","r","u","e">>, <<"t","R","u","E">>, <<"T","R","u","e">>, <<"f","a","l","s","e">>, <<"F","A","L","S","E">>, <<"F","a","l","s","e">>, <<"f","A","l","s","e">>, <<"y","e","s">>, <<"Y","E","S">>, <<"Y","e","s">>, <<"y","E","s">>, <<"n","o">>, <<"N","O">>, <<"N","o">>, <<"m","a","y","b","e">>, <<"t","r","u","t","h">>, <<"1","0">> }

BoolSessions ==
    { FieldSession(raw, FieldRule(booleanValueType, NoTransform, BoolV(TRUE))) :
        raw \in Strings(BoolAlphabet, MaxBoolLen) \cup BoolWords }

InitBool ==
    /\ NewNormalizer
    /\ NoInstances
    /\ inp \in BoolSessions
    /\ pc = 1

SpecBool == InitBool /\ [][NextSession]_vars

\* SpecTransform: a string rule with every Replaces map of at most
\* MaxReplaces entries over a few keys and replacements
TransformKeys == << <<"a">>, <<"a","b">>, <<"b">>, <<"b","a">> >>

TransformNews == { <<>>, <<"a">>, <<"b">> }

TransformMaps ==
    { [i \in 1..Len(m) |-> <<TransformKeys[m[i][1]], m[i][2]>>] :
        m \in { x \in SeqsUpTo((1..Len(TransformKeys)) \X TransformNews, MaxReplaces) :
                  \A i \in 1..(Len(x) - 1) : x[i][1] < x[i + 1][1] } }

FourteenFour == <<"f","o","u","r","t","e","e","n",",","f","o","u","r">>

FourMap == << <<<<"f","o","u","r">>, <<"4">> >>, <<<<"f","o","u","r","t","e","e","n">>, <<"1","4">> >> >>

TransformSessions ==
    { FieldSession(raw, FieldRule(stringValueType, ValueTransform(ExactMatch, m, <<>>), NilV)) :
        raw \in Strings({"a", "b", " "}, MaxValueLen), m \in TransformMaps }
    \cup
    { FieldSession(FourteenFour,
                   FieldRule(stringValueType, ValueTransform(mm, FourMap, <<>>), NilV)) :
        mm \in {ExactMatch, FuzzyMatch} }

InitTransform ==
    /\ NewNormalizer
    /\ NoInstances
    /\ inp \in TransformSessions
    /\ pc = 1

SpecTransform == InitTransform /\ [][NextSession]_vars

\* SpecArray: an array rule with several separator lists (tokens that do not
\* overlap one another)
ArraySeparators == { <<>>, << <<",">> >>, << <<",">>, <<"a","b">> >>,
                     << <<"a","b">>, <<",">> >> }

ExampleSeparatorTokens == << <<",">>, <<"a","n","d">> >>

SportsText == <<"B","a","s","k","e","t","b","a","l","l",",","F","o","o","t","b","a","l","l"," ","a","n","d"," ","S","w","i","m","m","i","n","g">>

ArraySessions ==
    { FieldSession(raw, FieldRule(arrayValueType, ValueTransform(ExactMatch, <<>>, seps), NilV)) :
        raw \in Strings({"a", "b", ",", " "}, MaxValueLen), seps \in ArraySeparators }
    \cup
    { FieldSession(raw, FieldRule(arrayValueType,
                                  ValueTransform(ExactMatch, <<>>, ExampleSeparatorTokens), NilV)) :
        raw \in { SportsText, <<>> } }

InitArray ==
    /\ NewNormalizer
    /\ NoInstances
    /\ inp \in ArraySessions
    /\ pc = 1

SpecArray == InitArray /\ [][NextSession]_vars

(***************************************************************************)
(* SpecDefault: the field rule and a second rule, key and label "d", of    *)
(* every type and with several defaults, on texts of which no line is      *)
(* resolved to the second rule                                             *)
(***************************************************************************)
DefaultKey == <<"d">>

DefaultValues == { NilV, BoolV(TRUE), IntV(<<"7">>), FloatV(<<"1","5","e","1">>),
                   StrV(<<"t">>), StrV(<<"1","2">>),
                   ArrV(<<>>), ArrV(<< <<"a">>, <<"b">> >>) }

DefaultRule(valueType, default) ==
    NormalizePattern(<<DefaultKey>>, ExactMatch, Colon, DefaultKey, NoTransform,
                     valueType, default)

DefaultTexts == { <<>>, <<"x">>, <<"f",":","1">>, <<"f",":","1","\n","x">> }

DefaultSessions ==
    { Session(text, NewLine, <<>>,
              <<FieldRule(stringValueType, NoTransform, NilV), DefaultRule(type, d)>>,
              TestOrder) :
        text \in DefaultTexts, type \in valueTypes, d \in DefaultValues }

InitDefault ==
    /\ NewNormalizer
    /\ NoInstances
    /\ inp \in DefaultSessions
    /\ pc = 1

SpecDefault == InitDefault /\ [][NextSession]_vars

(***************************************************************************)
(* SpecLines: two rule sets, one exact and one fuzzy, on every text of at  *)
(* most MaxLines different lines out of seven                              *)
(***************************************************************************)
NKey == <<"n">>

GKey == <<"g">>

LineRule(labs, matchMethod, key, valueType, default) ==
    NormalizePattern(labs, matchMethod, Colon, key, NoTransform, valueType, default)

ExactLineRules ==
    << LineRule(<<NKey>>, ExactMatch, NKey, stringValueType, StrV(<<>>)),
       LineRule(<<GKey>>, ExactMatch, GKey, intValueType, IntV(<<"0">>)) >>

\* the label "ng" contains the keywords of both rules
FuzzyLineRules ==
    << LineRule(<<NKey>>, FuzzyMatch, NKey, stringValueType, StrV(<<>>)),
       LineRule(<<GKey, <<"n","g">> >>, FuzzyMatch, GKey, intValueType, IntV(<<"0">>)) >>

\* the exact rules with a replacement each that rewrites the plain line "C"
ReplacingLineRules ==
    << NormalizePattern(<<NKey>>, ExactMatch, Colon, NKey,
                        ValueTransform(ExactMatch, << << <<"C">>, <<"c">> >> >>, <<>>),
                        stringValueType, StrV(<<>>)),
       NormalizePattern(<<GKey>>, ExactMatch, Colon, GKey,
                        ValueTransform(ExactMatch, << << <<"C">>, <<"5">> >> >>, <<>>),
                        intValueType, IntV(<<"0">>)) >>

LineKinds == { <<"n",":","A">>, <<"g",":","7">>, <<"g",":","x">>, <<"n"," ","B">>,
               <<"C">>, <<"n","g",":","8">>, <<"x","n",":","D">> }

\* the sequences of SeqsUpTo(E, k) without a repeated element
DistinctSeqs(E, k) ==
    { x \in SeqsUpTo(E, k) : \A i, j \in 1..Len(x) : x[i] = x[j] => i = j }

LineSessions ==
    { Session(Join(ls, NewLine), NewLine, <<>>, pats, TestOrder) :
        ls \in DistinctSeqs(LineKinds, MaxLines),
        pats \in { ExactLineRules, FuzzyLineRules, ReplacingLineRules } }

InitLines ==
    /\ NewNormalizer
    /\ NoInstances
    /\ inp \in LineSessions
    /\ pc = 1

SpecLines == InitLines /\ [][NextSession]_vars

(***************************************************************************)
(* SpecLabel: one string rule with one keyword, exact or fuzzy, on a text  *)
(* of one line, label ":" "v", with several lists of known labels          *)
(***************************************************************************)
LabelKey == <<"k">>

LabelRule(keyword, matchMethod) ==
    NormalizePattern(<<keyword>>, matchMethod, Colon, LabelKey, NoTransform,
                     stringValueType, StrV(<<>>))

LabelKeywords == { <<"a","b">>,
                   <<"A","B">>,
                   <<" ","a","b"," ">>,
                   <<"a"," ","b">>,
                   <<"b">>,
                   <<"y","o","u"," ","n","a","m","e">> }

LineLabels == { <<"a","b">>,
                <<"A","b">>,
                <<"a"," ","b">>,
                <<"a"," "," ","b">>,
                <<"a","U+3000","U+3000","b">>,
                <<"x","a","b">>,
                <<"x"," ","a","b">>,
                <<"x","-","A","B">>,
                <<"y","o","u"," "," "," "," "," ","n","a","m","e">> }

KnownLabels == { <<>>, << <<"x">> >>, << <<"a">> >> }

LabelSessions ==
    { Session(label \o <<":","v">>, NewLine, labs, <<LabelRule(keyword, mm)>>, TestOrder) :
        label \in LineLabels, labs \in KnownLabels,
        keyword \in LabelKeywords, mm \in {ExactMatch, FuzzyMatch} }

InitLabel ==
    /\ NewNormalizer
    /\ NoInstances
    /\ inp \in LabelSessions
    /\ pc = 1

SpecLabel == InitLabel /\ [][NextSession]_vars

(***************************************************************************)
(* SpecSplit: one string rule with several separators on one-line texts in *)
(* which the separator occurs any number of times                          *)
(***************************************************************************)
TimeLabel == <<"t","i","m","e">>

TimeLine == <<"t","i","m","e",":"," ","1","2",":","3","0">>

SplitSeparators == { <<>>, Colon, <<":",":">>, <<"-">> }

SplitRule(label, separator) ==
    NormalizePattern(<<label>>, ExactMatch, separator, FieldKey, NoTransform,
                     stringValueType, StrV(<<>>))

SplitSessions ==
    { Session(FieldKey \o rest, NewLine, <<>>, <<SplitRule(FieldKey, sep)>>, TestOrder) :
        rest \in Strings({":", "-", "a", " "}, MaxValueLen), sep \in SplitSeparators }
    \cup
    { Session(TimeLine, NewLine, <<>>, <<SplitRule(TimeLabel, Colon)>>, TestOrder) }

InitSplit ==
    /\ NewNormalizer
    /\ NoInstances
    /\ inp \in SplitSessions
    /\ pc = 1

SpecSplit == InitSplit /\ [][NextSession]_vars

(***************************************************************************)
(* SpecMerge: one rule of every type, with the zero default or a default   *)
(* of its type, on texts of several lines resolved to its key: values that  *)
(* cast, values that do not, values out of range, an empty value and a     *)
(* plain line; the rules are installed before or after the text            *)
(***************************************************************************)
MergeLines == { <<"f",":","1",",","x">>, <<"f",":","0">>, <<"1">>, <<"x">>, <<"f",":">>,
                <<"f",":","1","e","9","9","9">>,
                <<"f",":","9","9","9","9","9","9","9","9","9","9","9","9","9","9","9","9","9","9","9","9">> }

MergeDefault(valueType) ==
    CASE valueType = booleanValueType -> BoolV(TRUE)
      [] valueType = intValueType     -> IntV(<<"7">>)
      [] valueType = floatValueType   -> FloatV(<<"1","5","e","1">>)
      [] valueType = arrayValueType   -> ArrV(<< <<"d">> >>)
      [] OTHER                        -> StrV(<<"d">>)

MergeRule(valueType, default) ==
    FieldRule(valueType, ValueTransform(ExactMatch, <<>>, << <<",">> >>), default)

\* the rules installed before the text is set
PatternsFirst == <<"SetSeparator", "SetLabels", "SetPatterns", "SetOriginalText",
                   "Parse", "Validate", "Ok">>

MergeRules ==
    { MergeRule(type, NilV) : type \in valueTypes }
    \cup { MergeRule(type, MergeDefault(type)) : type \in valueTypes }

MergeSessions ==
    { Session(Join(ls, NewLine), NewLine, <<>>, <<rule>>, calls) :
        ls \in DistinctSeqs(MergeLines, MaxLines),
        rule \in MergeRules,
        calls \in { TestOrder, PatternsFirst } }

InitMerge ==
    /\ NewNormalizer
    /\ NoInstances
    /\ inp \in MergeSessions
    /\ pc = 1

SpecMerge == InitMerge /\ [][NextSession]_vars

(***************************************************************************)
(* SpecFuzzy: a string rule whose transform is exact or fuzzy, with every  *)
(* Replaces map of at most MaxReplaces entries over keys of either letter  *)
(* case, on values of either letter case                                   *)
(***************************************************************************)
FuzzyKeys == << <<"a">>, <<"A">>, <<"A","b">>, <<"b">> >>

FuzzyNews == { <<>>, <<"X">> }

FuzzyMaps ==
    { [i \in 1..Len(m) |-> <<FuzzyKeys[m[i][1]], m[i][2]>>] :
        m \in { x \in SeqsUpTo((1..Len(FuzzyKeys)) \X FuzzyNews, MaxReplaces) :
                  \A i \in 1..(Len(x) - 1) : x[i][1] < x[i + 1][1] } }

FuzzySessions ==
    { FieldSession(raw, FieldRule(stringValueType, ValueTransform(mm, m, <<>>), NilV)) :
        raw \in Strings({"a", "A", "b", "B"}, MaxValueLen),
        m \in FuzzyMaps,
        mm \in {ExactMatch, FuzzyMatch} }

InitFuzzy ==
    /\ NewNormalizer
    /\ NoInstances
    /\ inp \in FuzzySessions
    /\ pc = 1

SpecFuzzy == InitFuzzy /\ [][NextSession]_vars

(***************************************************************************)
(* SpecInt: an int rule with default 7, without replacements or with the   *)
(* replacement of "x" by "1", on short values over digits, signs, "x" and  *)
(* space and on numerals at and beyond the limits of int64                 *)
(***************************************************************************)
IntAlphabet == { "0", "1", "-", "+", "x", " " }

IntWords == { MaxInt64,
              MinInt64Mag,
              <<"-">> \o MinInt64Mag,
              <<"-">> \o MaxInt64 \o <<"0">>,
              <<"+">> \o MaxInt64,
              <<"0","0">> \o MaxInt64,
              <<"1","x">> \o Tail(MaxInt64),
              <<"9","9","9","9","9","9","9","9","9","9","9","9","9","9","9","9","9","9","9","9">>,
              <<"1",".","5">>, <<"1","e","3">>, <<"0","x","1","0">> }

IntTransforms ==
    { NoTransform, ValueTransform(ExactMatch, << << <<"x">>, <<"1">> >> >>, <<>>) }

IntSessions ==
    { FieldSession(raw, FieldRule(intValueType, vt, IntV(<<"7">>))) :
        raw \in Strings(IntAlphabet, MaxValueLen) \cup IntWords,
        vt \in IntTransforms }

InitInt ==
    /\ NewNormalizer
    /\ NoInstances
    /\ inp \in IntSessions
    /\ pc = 1

SpecInt == InitInt /\ [][NextSession]_vars

(***************************************************************************)
(* SpecInstances: two engines, each in a goroutine of its own, run          *)
(* SetOriginalText, SetLabels, SetPatterns, Parse.  SetPatterns keeps the   *)
(* caller's slice (n.Patterns = patterns) and writes into it, so engines    *)
(* given the same rule list work on the same rules and the same Replaces    *)
(* maps.  A write of a Separator (a string, two words) and a delete on a    *)
(* map take two steps; an access by the other goroutine in between is a     *)
(* data race: it ends the program (the run time's "concurrent map" checks,  *)
(* a race-detecting build, a torn string) or goes on with the value in      *)
(* memory.                                                                  *)
(***************************************************************************)
RuleList(rules) == [rules |-> rules, sepWrites |-> {}, mapWrites |-> {}]

NewInstance(list, given, text) ==
    [list |-> list, given |-> given, text |-> text, pc |-> "SetOriginalText", k |-> 0,
     labels |-> [isNil |-> TRUE, set |-> {}], OriginalText |-> <<>>, Patterns |-> 0,
     Items |-> EmptyMap, Errors |-> <<>>]

\* the rules of the list engine e was given, as they are in memory now
RulesOf(e) == shared[engines[e].list].rules

\* another engine is in the middle of writing the Separator of rule k of e's list
SepWriteInProgress(e, k) ==
    \E w \in shared[engines[e].list].sepWrites : w[1] # e /\ w[2] = k

\* another engine is in the middle of a delete on the Replaces map of rule k
MapWriteInProgress(e, k) ==
    \E w \in shared[engines[e].list].mapWrites : w[1] # e /\ w[2] = k

\* the next access of engine e to its rule list races with a write in progress
RacingAccess(e) ==
    \/ engines[e].pc \in {"rule", "writeSeparator"} /\ SepWriteInProgress(e, engines[e].k)
    \/ engines[e].pc \in {"rangeReplaces", "delete"} /\ MapWriteInProgress(e, engines[e].k)
    \/ /\ engines[e].pc = "Parse"
       /\ \E k \in 1..Len(RulesOf(e)) : SepWriteInProgress(e, k) \/ MapWriteInProgress(e, k)

\* the engine after the body of the loop of SetPatterns for the rule
AfterRule(eng, rule) ==
    [eng EXCEPT !.labels.set = @ \cup CleanedLabels(rule.Labels),
                !.k = @ + 1,
                !.pc = "rule"]

CallSetOriginalText(e) ==
    /\ ~faulted
    /\ engines[e].pc = "SetOriginalText"
    /\ engines' = [engines EXCEPT ![e].OriginalText = engines[e].text,
                                   ![e].Items = EmptyMap,
                                   ![e].Errors = <<>>,
                                   ![e].pc = "SetLabels"]
    /\ UNCHANGED <<shared, faulted>>

CallSetLabels(e) ==
    /\ ~faulted
    /\ engines[e].pc = "SetLabels"
    /\ engines' = [engines EXCEPT ![e].labels = [isNil |-> FALSE, set |-> {}],
                                   ![e].pc = "SetPatterns"]
    /\ UNCHANGED <<shared, faulted>>

\* n.Patterns = patterns
AssignPatterns(e) ==
    /\ ~faulted
    /\ engines[e].pc = "SetPatterns"
    /\ engines' = [engines EXCEPT ![e].Patterns = engines[e].list,
                                   ![e].k = 1,
                                   ![e].pc = "rule"]
    /\ UNCHANGED <<shared, faulted>>

\* the range copy of rule k and the test pattern.Separator == ""
ReadRule(e) ==
    /\ ~faulted
    /\ engines[e].pc = "rule"
    /\ engines[e].k <= Len(RulesOf(e))
    /\ engines' = [engines EXCEPT ![e].pc =
                       IF RulesOf(e)[engines[e].k].Separator = <<>> THEN "writeSeparator"
                       ELSE "rangeReplaces"]
    /\ UNCHANGED <<shared, faulted>>

\* n.Patterns[i].Separator = ":", first half
BeginWriteSeparator(e) ==
    /\ ~faulted
    /\ engines[e].pc = "writeSeparator"
    /\ shared' = [shared EXCEPT ![engines[e].list].sepWrites = @ \cup {<<e, engines[e].k>>}]
    /\ engines' = [engines EXCEPT ![e].pc = "writingSeparator"]
    /\ UNCHANGED faulted

\* n.Patterns[i].Separator = ":", second half
EndWriteSeparator(e) ==
    /\ ~faulted
    /\ engines[e].pc = "writingSeparator"
    /\ shared' = [shared EXCEPT ![engines[e].list].sepWrites = @ \ {<<e, engines[e].k>>},
                                 ![engines[e].list].rules[engines[e].k].Separator = <<":">>]
    /\ engines' = [engines EXCEPT ![e].pc = "rangeReplaces"]
    /\ UNCHANGED faulted

\* the range loop over the Replaces map of rule k, up to the delete of the
\* empty key when the map has it
RangeReplaces(e) ==
    /\ ~faulted
    /\ engines[e].pc = "rangeReplaces"
    /\ engines' = [engines EXCEPT ![e] =
                       IF <<>> \in MapKeys(RulesOf(e)[engines[e].k].ValueTransform.Replaces)
                       THEN [@ EXCEPT !.pc = "delete"]
                       ELSE AfterRule(@, RulesOf(e)[engines[e].k])]
    /\ UNCHANGED <<shared, faulted>>

\* delete(n.Patterns[i].ValueTransform.Replaces, k), first half
BeginDelete(e) ==
    /\ ~faulted
    /\ engines[e].pc = "delete"
    /\ shared' = [shared EXCEPT ![engines[e].list].mapWrites = @ \cup {<<e, engines[e].k>>}]
    /\ engines' = [engines EXCEPT ![e].pc = "deleting"]
    /\ UNCHANGED faulted

\* delete(n.Patterns[i].ValueTransform.Replaces, k), second half, and the rest
\* of the loop body
EndDelete(e) ==
    /\ ~faulted
    /\ engines[e].pc = "deleting"
    /\ shared' = [shared EXCEPT ![engines[e].list].mapWrites = @ \ {<<e, engines[e].k>>},
                                 ![engines[e].list].rules[engines[e].k].ValueTransform.Replaces =
                                     MapDelete(@, <<>>)]
    /\ engines' = [engines EXCEPT ![e] = AfterRule(@, RulesOf(e)[engines[e].k])]
    /\ UNCHANGED faulted

\* the end of SetPatterns: n.Errors = []string{}, n.Items = items
FinishSetPatterns(e) ==
    /\ ~faulted
    /\ engines[e].pc = "rule"
    /\ engines[e].k > Len(RulesOf(e))
    /\ engines' = [engines EXCEPT ![e].Items = DefaultItems(RulesOf(e), Len(RulesOf(e))),
                                   ![e].Errors = <<>>,
                                   ![e].pc = "Parse"]
    /\ UNCHANGED <<shared, faulted>>

CallParse(e) ==
    /\ ~faulted
    /\ engines[e].pc = "Parse"
    /\ \E r \in ParseResults(engines[e].labels, RulesOf(e), engines[e].OriginalText,
                              NewLine, engines[e].Items) :
           engines' = [engines EXCEPT ![e].Items = r.items,
                                      ![e].Errors = r.errors,
                                      ![e].pc = "done"]
    /\ UNCHANGED <<shared, faulted>>

\* the racing access ends the program
Fault(e) ==
    /\ ~faulted
    /\ RacingAccess(e)
    /\ faulted' = TRUE
    /\ UNCHANGED <<shared, engines>>

InstanceRule(separator, replaces) ==
    NormalizePattern(<<FieldKey>>, ExactMatch, separator, FieldKey,
                     ValueTransform(ExactMatch, replaces, <<>>), stringValueType, StrV(<<"d">>))

InstanceLists ==
    { <<InstanceRule(sep, m)>> :
        sep \in { <<>>, Colon },
        m \in { <<>>,
                << << <<"a">>, <<"b">> >> >>,
                << << <<>>, <<"x">> >>, << <<"a">>, <<"b">> >> >> } }

InstanceTexts == { <<"f",":","a">>, <<"f",":","x","\n","a">> }

InitInstances ==
    /\ NewNormalizer
    /\ inp = NoInput
    /\ pc = 0
    /\ faulted = FALSE
    /\ \E list \in InstanceLists :
           /\ shared = <<RuleList(list), RuleList(list)>>
           /\ \E other \in 1..2, t1, t2 \in InstanceTexts :
                  engines = <<NewInstance(1, list, t1), NewInstance(other, list, t2)>>

NextInstances ==
    \/ \E e \in 1..2 : CallSetOriginalText(e) /\ UNCHANGED <<engine, inp, pc>>
    \/ \E e \in 1..2 : CallSetLabels(e) /\ UNCHANGED <<engine, inp, pc>>
    \/ \E e \in 1..2 : AssignPatterns(e) /\ UNCHANGED <<engine, inp, pc>>
    \/ \E e \in 1..2 : ReadRule(e) /\ UNCHANGED <<engine, inp, pc>>
    \/ \E e \in 1..2 : BeginWriteSeparator(e) /\ UNCHANGED <<engine, inp, pc>>
    \/ \E e \in 1..2 : EndWriteSeparator(e) /\ UNCHANGED <<engine, inp, pc>>
    \/ \E e \in 1..2 : RangeReplaces(e) /\ UNCHANGED <<engine, inp, pc>>
    \/ \E e \in 1..2 : BeginDelete(e) /\ UNCHANGED <<engine, inp, pc>>
    \/ \E e \in 1..2 : EndDelete(e) /\ UNCHANGED <<engine, inp, pc>>
    \/ \E e \in 1..2 : FinishSetPatterns(e) /\ UNCHANGED <<engine, inp, pc>>
    \/ \E e \in 1..2 : CallParse(e) /\ UNCHANGED <<engine, inp, pc>>
    \/ \E e \in 1..2 : Fault(e) /\ UNCHANGED <<engine, inp, pc>>

SpecInstances == InitInstances /\ [][NextInstances]_vars

(***************************************************************************)
(* Properties                                                              *)
(***************************************************************************)
RuleKeys(pats) == { pats[i].ValueKey : i \in 1..Len(pats) }

\* a valid rule set has been installed by SetPatterns
ValidRulesInstalled ==
    /\ ~panicked
    /\ Patterns # <<>>
    /\ ValidateOf(NewLine, Patterns) = NoError

\* C1: once SetPatterns has installed a valid rule set, the key set of Items
\* equals the set of value keys of the rules in every later state.
C1_KeySetIsRuleKeys ==
    ValidRulesInstalled => DOMAIN Items = RuleKeys(Patterns)

\* C2: a Parse called directly after a Parse, with rules and text unchanged,
\* leaves Items and Errors as the first call left them.
C2_ParseIdempotent ==
    [][(lastOp = "Parse" /\ lastOp' = "Parse") =>
           (Items' = Items /\ Errors' = Errors)]_vars

\* C3: after a Parse with an installed rule set that Validate rejects, for any
\* text, Errors holds the validation error and nothing else, and Items
\* equals the defaults of the rules.
C3_InvalidRulesFailFast ==
    (lastOp = "Parse" /\ Patterns # <<>> /\ ValidateOf(Separator, Patterns) # NoError)
        => /\ Errors = <<ValidateOf(Separator, Patterns)>>
           /\ Items = DefaultItems(Patterns, Len(Patterns))

\* two different rules have keys equal ignoring case, or share a label
\* keyword ignoring case
DuplicateAcrossRules(pats) ==
    \E i, j \in 1..Len(pats) :
        /\ i # j
        /\ \/ ToLower(pats[i].ValueKey) = ToLower(pats[j].ValueKey)
           \/ \E a \in 1..Len(pats[i].Labels), b \in 1..Len(pats[j].Labels) :
                  ToLower(pats[i].Labels[a]) = ToLower(pats[j].Labels[b])

\* C4: Validate returns an error for every rule set in which two rules have
\* the same key or share a label keyword, ignoring letter case.
C4_DuplicatesRejected ==
    (lastOp = "Validate" /\ DuplicateAcrossRules(Patterns)) => ret.err # NoError

C4_Witness ==
    /\ lastOp = "Validate"
    /\ Len(Patterns) = 2
    /\ Patterns[1].ValueKey = <<"k">>
    /\ Patterns[2].ValueKey = <<"K">>
    /\ ret.err.kind = "DupKey"

\* the key is blank, the type is not one of the five, or there is no label
RuleDefect(p) ==
    \/ \A i \in 1..Len(p.ValueKey) : IsSpace(p.ValueKey[i])
    \/ p.ValueType \notin {"string", "boolean", "int", "float", "array"}
    \/ p.Labels = <<>>

\* C5: Validate returns an error for every rule set with a rule that has a
\* blank key, an unknown type or no label, and success for every non-empty
\* rule set, with a non-empty line separator, without such a rule and
\* without a duplicate key or label across rules.
C5_DefectsRejected ==
    lastOp = "Validate" =>
        /\ (\E i \in 1..Len(Patterns) : RuleDefect(Patterns[i])) => ret.err # NoError
        /\ ( /\ Patterns # <<>>
             /\ Separator # <<>>
             /\ \A i \in 1..Len(Patterns) : ~RuleDefect(Patterns[i])
             /\ ~DuplicateAcrossRules(Patterns) ) => ret.err = NoError

C5_Witness ==
    /\ lastOp = "Validate"
    /\ Len(Patterns) = 2
    /\ Patterns[1].ValueKey = <<"q">>
    /\ Patterns[2].ValueKey = <<" ">>
    /\ ret.err.kind = "EmptyKey"

\* C6: the README example: after SetOriginalText, SetSeparator, SetLabels,
\* SetPatterns, Parse on the three example lines joined by the configured
\* separator, Items is {name: "John", age: 12, fun: [Basketball, Football,
\* Swimming]} and Errors is empty.
C6_EndToEnd ==
    (pc > 5 /\ inp.text = Join(ExampleLines(John, Twelve), inp.sep))
        => /\ Items = (NameKey :> StrV(John) @@ AgeKey :> IntV(Twelve) @@
                       FunKey :> ArrV(Sports))
           /\ Errors = <<>>

C6_Witness ==
    /\ pc = 6
    /\ lastOp = "Parse"
    /\ inp.sep = EscapedNewLine
    /\ inp.text = Join(ExampleLines(John, Twelve), EscapedNewLine)
    /\ Items[AgeKey] = IntV(Twelve)

\* one pass from the left over s; at each position the longest key of map m
\* that occurs there is replaced, and the scan resumes behind it
RECURSIVE LongestKeyReplace(_, _)
LongestKeyReplace(s, m) ==
    IF s = <<>> THEN <<>>
    ELSE LET here == { k \in 1..Len(m) : m[k][1] # <<>> /\ MatchAt(s, 1, m[k][1]) }
         IN  IF here = {}
             THEN <<s[1]>> \o LongestKeyReplace(Tail(s), m)
             ELSE LET k == CHOOSE x \in here :
                               \A y \in here : Len(m[y][1]) <= Len(m[x][1])
                  IN  m[k][2] \o
                      LongestKeyReplace(SubSeq(s, Len(m[k][1]) + 1, Len(s)), m)

\* the value transform as the specification describes it
TransformedAsSpecified(value, vt) ==
    IF vt.Replaces = <<>> THEN value
    ELSE IF vt.MatchMethod = FuzzyMatch
    THEN TrimSpace(LongestKeyReplace(ToLower(value),
             [k \in 1..Len(vt.Replaces) |->
                 <<ToLower(vt.Replaces[k][1]), vt.Replaces[k][2]>>]))
    ELSE TrimSpace(LongestKeyReplace(value, vt.Replaces))

\* a joined to b by a newline, or b alone when a is empty
JoinedByNewline(a, b) == IF a = <<>> THEN b ELSE a \o <<"\n">> \o b

\* the text has exactly the two non-blank lines l1 and l2
TwoLines(l1, l2) == TextLines(OriginalText, Separator) = <<l1, l2>>

\* the lines of the text when there are exactly two, as a set of at most one element
TwoLineTexts ==
    IF Len(TextLines(OriginalText, Separator)) = 2
    THEN { TextLines(OriginalText, Separator) }
    ELSE {}

C8_CanonicalLiteralsOnly ==
    (pc > 5) =>
        LET x == FieldValue
        IN  ( /\ x # <<>>
              /\ ToLower(x) \notin { <<"y">>, <<"y","e","s">>, <<"n">>, <<"n","o">> }
              /\ ParseBool(x).err # NoError )
            => /\ Len(Errors) = 1
               /\ Items[FieldKey] = BoolV(FALSE)

\* C8 amended: for a boolean field, an empty value gives false; y and yes in
\* any letter case give true; n and no in any letter case give false; any
\* other value that is, in any letter case, one of 1, t, true, 0, f, false
\* gives that boolean; every other value appends one error and leaves false.
C8_BooleanCast ==
    (pc > 5) =>
        LET x   == FieldValue
            low == ToLower(x)
        IN  IF x = <<>> THEN Items[FieldKey] = BoolV(FALSE) /\ Errors = <<>>
            ELSE IF low \in { <<"y">>, <<"y","e","s">> }
            THEN Items[FieldKey] = BoolV(TRUE) /\ Errors = <<>>
            ELSE IF low \in { <<"n">>, <<"n","o">> }
            THEN Items[FieldKey] = BoolV(FALSE) /\ Errors = <<>>
            ELSE IF low \in { <<"1">>, <<"t">>, <<"t","r","u","e">> }
            THEN Items[FieldKey] = BoolV(TRUE) /\ Errors = <<>>
            ELSE IF low \in { <<"0">>, <<"f">>, <<"f","a","l","s","e">> }
            THEN Items[FieldKey] = BoolV(FALSE) /\ Errors = <<>>
            ELSE Len(Errors) = 1 /\ Items[FieldKey] = BoolV(FALSE)

C8_Witness ==
    /\ pc = 6
    /\ lastOp = "Parse"
    /\ FieldValue = <<"Y","e","s">>
    /\ Items[FieldKey] = BoolV(TRUE)

\* C9: the value transform replaces, in one pass from the left, at each
\* position the longest replacement key that occurs there, never scanning
\* replaced text again, and trims the result; {"fourteen":"14","four":"4"}
\* turns "fourteen,four" into "14,4".
C9_LongestKeyFirst ==
    (pc > 5) =>
        /\ Items[FieldKey] =
               StrV(TransformedAsSpecified(FieldValue, Patterns[1].ValueTransform))
        /\ (FieldValue = FourteenFour) => Items[FieldKey] = StrV(<<"1","4",",","4">>)

C9_Witness ==
    /\ pc = 6
    /\ lastOp = "Parse"
    /\ FieldValue = FourteenFour
    /\ Patterns[1].ValueTransform.MatchMethod = ExactMatch
    /\ Items[FieldKey] = StrV(<<"1","4",",","4">>)

\* the parts of s between the occurrences of the tokens, cutting at one
\* token after the other
RECURSIVE SplitParts(_, _)
SplitParts(parts, token) ==
    IF parts = <<>> THEN <<>>
    ELSE (IF token = <<>> THEN <<parts[1]>> ELSE Split(parts[1], token))
         \o SplitParts(Tail(parts), token)

RECURSIVE SplitAtEach(_, _)
SplitAtEach(parts, tokens) ==
    IF tokens = <<>> THEN parts
    ELSE SplitAtEach(SplitParts(parts, tokens[1]), Tail(tokens))

NonEmptyTrimmed(parts) ==
    SelectSeq([i \in 1..Len(parts) |-> TrimSpace(parts[i])], LAMBDA e : e # <<>>)

\* C10: for an array field the value is split at every occurrence of every
\* separator token, taken literally, and every element is trimmed; an empty
\* value gives the empty sequence; with separators "," and "and",
\* "Basketball,Football and Swimming" gives Basketball, Football, Swimming.
C10_ArraySplit ==
    (pc > 5) =>
        LET arr  == Items[FieldKey].a
            seps == Patterns[1].ValueTransform.Separators
        IN  /\ Items[FieldKey].t = "array"
            /\ FieldValue = <<>> => arr = <<>>
            /\ \A k \in 1..Len(arr) : arr[k] = TrimSpace(arr[k])
            /\ \A k \in 1..Len(arr), j \in 1..Len(seps) : ~Contains(arr[k], seps[j])
            /\ SelectSeq(arr, LAMBDA e : e # <<>>) =
                   NonEmptyTrimmed(SplitAtEach(<<FieldValue>>, seps))
            /\ (FieldValue = SportsText /\ seps = ExampleSeparatorTokens) => arr = Sports

C10_Witness ==
    /\ pc = 6
    /\ lastOp = "Parse"
    /\ FieldValue = SportsText
    /\ Items[FieldKey] = ArrV(Sports)

\* C11: a call of SetOriginalText while a rule set is installed leaves Items
\* equal to the coerced defaults of the rules, one entry for every value key,
\* and leaves Errors empty.
C11_TextResetsToDefaults ==
    (lastOp = "SetOriginalText" /\ Patterns # <<>>)
        => /\ Items = DefaultItems(Patterns, Len(Patterns))
           /\ Errors = <<>>

\* C13: the value Ok returns is true exactly when Errors is empty, whatever
\* Items holds.
C13_OkIffNoErrors ==
    lastOp = "Ok" => (ret.ok <=> Errors = <<>>)

\* Ok has returned false after a Parse that filled Items and left an error
C13_Witness ==
    /\ lastOp = "Ok"
    /\ ~ret.ok
    /\ Len(Errors) = 1
    /\ NameKey \in DOMAIN Items

\* the dynamic type of the values of a rule of type valueType
TypeTag(valueType) ==
    CASE valueType = booleanValueType -> "bool"
      [] valueType = intValueType     -> "int"
      [] valueType = floatValueType   -> "float"
      [] valueType = arrayValueType   -> "array"
      [] OTHER                        -> "string"

\* no record of the last Parse has the key of rule i
Unresolved(i) ==
    \A r \in 1..Len(kvLines) : kvLines[r].key # Patterns[i].ValueKey

\* C12: after SetOriginalText, SetPatterns, Parse the key of every rule to
\* which no line was resolved holds a value of the rule's type, and the
\* configured default itself when that has the rule's type already: the
\* boolean, integer, float or string, and for an array rule the list.
C12_UnresolvedKeepDefault ==
    lastOp = "Parse" =>
        \A i \in 1..Len(Patterns) :
            Unresolved(i) =>
                /\ Patterns[i].ValueKey \in DOMAIN Items
                /\ Items[Patterns[i].ValueKey].t = TypeTag(Patterns[i].ValueType)
                /\ Patterns[i].DefaultValue.t = TypeTag(Patterns[i].ValueType)
                       => Items[Patterns[i].ValueKey] = Patterns[i].DefaultValue

\* Parse has returned from a run with a rule set that Validate accepts
ParsedValid ==
    /\ lastOp = "Parse"
    /\ ValidateOf(Separator, Patterns) = NoError

\* the trimmed non-blank lines of the text of the engine
ParsedLines == TextLines(OriginalText, Separator)

\* the line starts with a known label and matches no rule
LabelledUnmatched(lineText) ==
    /\ ~IsPureText(labels, lineText)
    /\ FirstMatch(Patterns, lineText) = 0

\* a record of the last Parse carries the whole line as its value: the line
\* was appended as continuation text
AppendedAsText(lineText) ==
    \E r \in 1..Len(kvLines) : kvLines[r].value = lineText

\* C14: after a Parse, for every line j that starts with a known label and
\* matches no rule: line j and every line after it, up to and including the
\* next line that matches a rule, were not appended as continuation text;
\* and a line of pure text right after that matching line was appended.
C14_LabelledLineStopsContinuation ==
    ParsedValid =>
        \A j \in 1..Len(ParsedLines) :
            LabelledUnmatched(ParsedLines[j]) =>
                \A k \in j..Len(ParsedLines) :
                    (\A m \in (j+1)..(k-1) : FirstMatch(Patterns, ParsedLines[m]) = 0)
                        => /\ ~AppendedAsText(ParsedLines[k])
                           /\ ( /\ k > j
                                /\ k < Len(ParsedLines)
                                /\ FirstMatch(Patterns, ParsedLines[k]) # 0
                                /\ IsPureText(labels, ParsedLines[k + 1]) )
                                  => AppendedAsText(ParsedLines[k + 1])

\* "n:A", then the labelled line "n B", then the plain line "C": one record
C14_Witness ==
    /\ lastOp = "Parse"
    /\ ParsedLines = << <<"n",":","A">>, <<"n"," ","B">>, <<"C">> >>
    /\ Len(kvLines) = 1
    /\ Items[NKey] = StrV(<<"A">>)

\* the records of the last Parse that are the field record of the line
FieldRecords(lineText) ==
    { r \in 1..Len(kvLines) :
        \E i \in 1..Len(Patterns) :
            /\ RuleMatches(Patterns[i], lineText)
            /\ kvLines[r] = MatchedRecord(Patterns[i], lineText) }

\* the line carries a label of rule i
CarriesLabelOf(i, lineText) == RuleMatches(Patterns[i], lineText)

\* C15: after a Parse, a line that carries a label of a rule for which an
\* earlier line has a field record has no field record of its own.
C15_RuleMatchesOnce ==
    ParsedValid =>
        \A j, k \in 1..Len(ParsedLines) :
            ( /\ j < k
              /\ FieldRecords(ParsedLines[j]) # {}
              /\ \E i \in 1..Len(Patterns) :
                     /\ CarriesLabelOf(i, ParsedLines[k])
                     /\ \E r \in FieldRecords(ParsedLines[j]) :
                            kvLines[r].key = Patterns[i].ValueKey )
            => FieldRecords(ParsedLines[k]) = {}

\* the cast of the value of the record fails
CastFails(rec) ==
    /\ rec.valueType \in {booleanValueType, intValueType, floatValueType}
    /\ CastValue(rec.valueType, rec.valueTransform.Separators,
                 TransformValue(rec, [x \in 1..MaxReplaces |-> x]), NoError).err # NoError

\* C16: after a Parse with a valid rule set Errors has one entry for every
\* record of type boolean, int or float whose cast failed, and no other.
C16_OneErrorPerFailedCast ==
    ParsedValid =>
        Len(Errors) = Cardinality({ r \in 1..Len(kvLines) : CastFails(kvLines[r]) })

\* C20: after a Parse, every line that matches a rule and has a field record
\* has exactly one, and it is the record of the first rule, in declaration
\* order, of which a keyword matches the line.
C20_FirstRuleWins ==
    ParsedValid =>
        \A k \in 1..Len(ParsedLines) :
            FieldRecords(ParsedLines[k]) # {} =>
                /\ Cardinality(FieldRecords(ParsedLines[k])) = 1
                /\ \A r \in FieldRecords(ParsedLines[k]), i \in 1..Len(Patterns) :
                       ( /\ RuleMatches(Patterns[i], ParsedLines[k])
                         /\ \A h \in 1..(i - 1) : ~RuleMatches(Patterns[h], ParsedLines[k]) )
                       => kvLines[r] = MatchedRecord(Patterns[i], ParsedLines[k])

\* the line "ng:8" matches both fuzzy rules and is resolved to the first
C20_Witness ==
    /\ lastOp = "Parse"
    /\ ParsedLines = << <<"n","g",":","8">> >>
    /\ RuleMatches(Patterns[1], ParsedLines[1])
    /\ RuleMatches(Patterns[2], ParsedLines[1])
    /\ Len(kvLines) = 1
    /\ kvLines[1].key = NKey
    /\ Items[NKey] = StrV(<<"8">>)

\* the label portion of the one line of the text, and the keyword of the rule
LineLabel == Split(OriginalText, Colon)[1]

RuleKeyword == Patterns[1].Labels[1]

\* the one line of the text was resolved to the rule
LineResolved ==
    /\ kvLines = <<MatchedRecord(Patterns[1], OriginalText)>>
    /\ Items[LabelKey] = StrV(<<"v">>)

\* a label or keyword trimmed and lower-cased
TrimmedLower(x) == ToLower(TrimSpace(x))

\* C17: after a Parse with an Exact rule, a line whose label equals the
\* keyword once both are trimmed and lower-cased is resolved to the rule.
C17_ExactAfterNormalizing ==
    ( /\ ParsedValid
      /\ Patterns[1].MatchMethod = ExactMatch
      /\ TrimmedLower(LineLabel) = TrimmedLower(RuleKeyword) )
    => LineResolved

IsWordChar(c) ==
    \/ \E i \in 1..26 : c = UpperChars[i] \/ c = LowerChars[i]
    \/ IsDigit(c)
    \/ c = "_"

\* kw occurs in label with no letter, digit or underscore next to it
WholeWordIn(label, kw) ==
    /\ kw # <<>>
    /\ \E p \in 1..Len(label) :
          /\ MatchAt(label, p, kw)
          /\ p = 1 \/ ~IsWordChar(label[p - 1])
          /\ p + Len(kw) > Len(label) \/ ~IsWordChar(label[p + Len(kw)])

\* C18: after a Parse with a Fuzzy rule whose keyword has no surrounding
\* whitespace, the line is resolved to the rule exactly when the keyword
\* occurs in its label as a whole word, both taken in lower case.
C18_FuzzyWholeWord ==
    ( /\ ParsedValid
      /\ Patterns[1].MatchMethod = FuzzyMatch
      /\ TrimSpace(RuleKeyword) = RuleKeyword )
    => (LineResolved <=> WholeWordIn(TrimmedLower(LineLabel), ToLower(RuleKeyword)))

RECURSIVE DropSpaces(_)
DropSpaces(x) == IF x # <<>> /\ IsSpace(x[1]) THEN DropSpaces(Tail(x)) ELSE x

\* every run of two or more whitespace characters replaced by one space
RECURSIVE CollapseRuns(_)
CollapseRuns(x) ==
    IF x = <<>> THEN <<>>
    ELSE IF Len(x) >= 2 /\ IsSpace(x[1]) /\ IsSpace(x[2])
    THEN <<" ">> \o CollapseRuns(DropSpaces(x))
    ELSE <<x[1]>> \o CollapseRuns(Tail(x))

\* a label in the loose mode: trimmed, whitespace runs collapsed, lower case
LooseLabel(x) == ToLower(CollapseRuns(TrimSpace(x)))

\* C19: after a Parse with an Exact rule whose keyword has no surrounding
\* whitespace, a line whose label equals the keyword once the whitespace
\* runs of both are collapsed to one space is resolved to the rule; so
\* "you     name" matches "you name".
C19_WhitespaceRunsCollapsed ==
    ( /\ ParsedValid
      /\ Patterns[1].MatchMethod = ExactMatch
      /\ TrimSpace(RuleKeyword) = RuleKeyword
      /\ LooseLabel(LineLabel) = LooseLabel(RuleKeyword) )
    => LineResolved

\* the text before and the text after the first occurrence of sep in the line
BeforeFirst(lineText, sep) == SubSeq(lineText, 1, Index(lineText, sep) - 1)

AfterFirst(lineText, sep) ==
    SubSeq(lineText, Index(lineText, sep) + Len(sep), Len(lineText))

\* C21: after a Parse of a one-line text that was resolved to the rule, the
\* record's label is the trimmed text before the first occurrence of the
\* rule's separator and its value, which the string key then holds, the
\* trimmed text after that occurrence, later occurrences included; the line
\* "time: 12:30" gives "12:30".
C21_ValueAfterFirstSeparator ==
    (lastOp = "Parse" /\ kvLines # <<>>) =>
        /\ Len(kvLines) = 1
        /\ Contains(OriginalText, Patterns[1].Separator)
        /\ kvLines[1].label = TrimSpace(BeforeFirst(OriginalText, Patterns[1].Separator))
        /\ kvLines[1].value = TrimSpace(AfterFirst(OriginalText, Patterns[1].Separator))
        /\ Items[FieldKey] = StrV(kvLines[1].value)
        /\ OriginalText = TimeLine => Items[FieldKey] = StrV(<<"1","2",":","3","0">>)

C21_Witness ==
    /\ lastOp = "Parse"
    /\ OriginalText = TimeLine
    /\ Len(kvLines) = 1
    /\ kvLines[1].label = TimeLabel
    /\ Items[FieldKey] = StrV(<<"1","2",":","3","0">>)

\* the records of the last Parse that are the field record of no line
ContinuationRecords ==
    { r \in 1..Len(kvLines) :
        \A k \in 1..Len(ParsedLines) : r \notin FieldRecords(ParsedLines[k]) }

\* s ends with p
EndsWith(s, p) ==
    /\ Len(p) <= Len(s)
    /\ SubSeq(s, Len(s) - Len(p) + 1, Len(s)) = p

\* the cast of the record's value after its replacements
CastOfRecord(rec) ==
    CastValue(rec.valueType, rec.valueTransform.Separators,
              TransformValue(rec, [x \in 1..MaxReplaces |-> x]), NoError).value

\* C22: after a Parse, every record that is not the field record of a line
\* follows another record, has that record's key, value type and value
\* transform, and has the full text of a line as its value; when it is the
\* last record, its key holds the cast of that text after the transform's
\* replacements (for a string, that text ends the string held).
C22_ContinuationCopiesLastRecord ==
    ParsedValid =>
        \A r \in ContinuationRecords :
            /\ r > 1
            /\ \E k \in 1..Len(ParsedLines) : kvLines[r].value = ParsedLines[k]
            /\ kvLines[r].key = kvLines[r - 1].key
            /\ kvLines[r].valueType = kvLines[r - 1].valueType
            /\ kvLines[r].valueTransform = kvLines[r - 1].valueTransform
            /\ r = Len(kvLines) =>
                  IF kvLines[r].valueType = stringValueType
                  THEN EndsWith(Items[kvLines[r].key].s, CastOfRecord(kvLines[r]).s)
                  ELSE Items[kvLines[r].key] = CastOfRecord(kvLines[r])

\* the plain line "C" continues an int field whose rule rewrites it to 5
C22_Witness ==
    /\ ParsedValid
    /\ Patterns = ReplacingLineRules
    /\ Len(kvLines) = 3
    /\ ContinuationRecords = {3}
    /\ kvLines[1].key = NKey
    /\ kvLines[3].value = <<"C">>
    /\ Items[GKey] = IntV(<<"5">>)

\* the lines without line k
WithoutLine(lines, k) == SubSeq(lines, 1, k - 1) \o SubSeq(lines, k + 1, Len(lines))

\* line k has no separator of a rule and no known label in front, and no
\* line before it has a field record
PlainBeforeFields(lines, k) ==
    /\ IsPureText(labels, lines[k])
    /\ \A i \in 1..Len(Patterns) : ~Contains(lines[k], Patterns[i].Separator)
    /\ \A j \in 1..(k - 1) : \A i \in 1..Len(Patterns) : ~RuleMatches(Patterns[i], lines[j])

\* C23: a Parse of a text with a line that has no separator and no label in
\* front and comes before every field line leaves Items, Errors and the
\* record list as a Parse of the text without that line can leave them (so
\* the lines after it are treated as if it were absent), and no record
\* carries the line.
C23_PlainLineBeforeFieldsDropped ==
    [][ (lastOp' = "Parse" /\ ValidateOf(Separator, Patterns) = NoError) =>
          \A k \in 1..Len(ParsedLines) :
              PlainBeforeFields(ParsedLines, k) =>
                  /\ [items |-> Items', errors |-> Errors', kv |-> kvLines']
                        \in ParseResults(labels, Patterns,
                                         Join(WithoutLine(ParsedLines, k), Separator),
                                         Separator, Items)
                  /\ \A r \in 1..Len(kvLines') : kvLines'[r].value # ParsedLines[k]
      ]_vars

\* the plain line "C" comes first and a later line is resolved
C23_Witness ==
    /\ ParsedValid
    /\ Len(ParsedLines) >= 2
    /\ PlainBeforeFields(ParsedLines, 1)
    /\ ParsedLines[1] = <<"C">>
    /\ Len(kvLines) >= 1
    /\ Errors = <<>>

\* the string held after the values of the records i.. of kv are merged, in
\* this order, into the string held: joined by a newline to a non-empty one,
\* in place of an empty one
RECURSIVE MergedText(_, _, _)
MergedText(held, kv, i) ==
    IF i > Len(kv) THEN held
    ELSE MergedText(IF held # <<>> THEN held \o <<"\n">> \o kv[i].value ELSE kv[i].value,
                    kv, i + 1)

\* the values of the field lines of the text and of the plain lines after the
\* first of them, in line order
RECURSIVE ValuesInLineOrder(_, _)
ValuesInLineOrder(lines, seen) ==
    IF lines = <<>> THEN <<>>
    ELSE IF HasPrefix(lines[1], FieldKey \o Colon)
    THEN <<TrimSpace(SubSeq(lines[1], 3, Len(lines[1])))>>
             \o ValuesInLineOrder(Tail(lines), TRUE)
    ELSE (IF seen THEN <<lines[1]>> ELSE <<>>) \o ValuesInLineOrder(Tail(lines), seen)

\* C24: a Parse with a string rule leaves under the rule's key the string
\* held before (none when the key is absent) with the values of the key's
\* records merged into it one after the other in line order: appended after a
\* newline to a non-empty string, in place of an empty one.
C24_StringMerge ==
    [][ ( /\ lastOp' = "Parse"
          /\ Len(Patterns) = 1
          /\ Patterns[1].ValueType = stringValueType
          /\ kvLines' # <<>> )
        => /\ [r \in 1..Len(kvLines') |-> kvLines'[r].value]
                 = ValuesInLineOrder(ParsedLines, FALSE)
           /\ Items'[FieldKey] =
                 StrV(MergedText(IF HasKey(Items, FieldKey) THEN Items[FieldKey].s ELSE <<>>,
                                 kvLines', 1))
      ]_vars

\* with the default "d" held, the value 0, the empty value and the plain line
\* were appended, each after a newline
C24_Witness ==
    /\ lastOp = "Parse"
    /\ Patterns[1].ValueType = stringValueType
    /\ Patterns[1].DefaultValue = StrV(<<"d">>)
    /\ ParsedLines = << <<"f",":","0">>, <<"f",":">>, <<"1">> >>
    /\ Items[FieldKey] = StrV(<<"d","\n","0","\n","\n","1">>)

\* the elements of the records i.. of kv, each value cut at the separator
\* tokens seps, one list after the other
RECURSIVE ElementsOf(_, _, _)
ElementsOf(kv, i, seps) ==
    IF i > Len(kv) THEN <<>>
    ELSE stringxSplit(kv[i].value, seps) \o ElementsOf(kv, i + 1, seps)

\* the elements of the rule's default when that is a list
DefaultElements(pattern) ==
    IF pattern.DefaultValue.t = "array" THEN pattern.DefaultValue.a ELSE <<>>

\* C25: after SetPatterns and a Parse with an array rule, the key holds the
\* elements of the rule's default followed by the element lists of the key's
\* records in line order, duplicates kept.
C25_ArrayConcatenation ==
    ( /\ lastOp = "Parse"
      /\ inp.calls = TestOrder
      /\ Patterns[1].ValueType = arrayValueType
      /\ kvLines # <<>> )
    => Items[FieldKey] =
           ArrV(DefaultElements(Patterns[1])
                \o ElementsOf(kvLines, 1, Patterns[1].ValueTransform.Separators))

\* the cast, by itself, of the last record of the last Parse
LastCast ==
    CastValue(kvLines[Len(kvLines)].valueType,
              kvLines[Len(kvLines)].valueTransform.Separators,
              TransformValue(kvLines[Len(kvLines)], [x \in 1..MaxReplaces |-> x]),
              NoError)

\* the zero value of a boolean, int or float rule
ZeroOf(valueType) ==
    CASE valueType = booleanValueType -> BoolV(FALSE)
      [] valueType = intValueType     -> IntV(<<"0">>)
      [] OTHER                        -> FloatV(<<"0">>)

\* the value strconv returns with a range error for the text x
LimitOf(valueType, x) ==
    IF valueType = intValueType
    THEN IntV(IF IsNegative(x) THEN <<"-">> \o MinInt64Mag ELSE MaxInt64)
    ELSE FloatV(Infinity(IsNegative(x)))

\* Parse has returned with records for the one rule, of type boolean, int or float
ScalarParsed ==
    /\ lastOp = "Parse"
    /\ Len(Patterns) = 1
    /\ Patterns[1].ValueType \in {booleanValueType, intValueType, floatValueType}
    /\ kvLines # <<>>

\* C26 as stated: after a Parse the key of a boolean, int or float rule holds
\* the cast result of the key's last record, and the zero value of the type
\* when that cast failed.
C26_LastCastOrZero ==
    ScalarParsed =>
        Items[FieldKey] = IF LastCast.err = NoError THEN LastCast.value
                          ELSE ZeroOf(Patterns[1].ValueType)

\* C26 amended: after a Parse the key of a boolean, int or float rule holds
\* the cast result of the key's last record; when that cast failed, false
\* for a boolean, zero for a text that is no numeral, and for a numeral out
\* of range the limit of int64 or the infinity of the numeral's sign.
C26_LastCastWins ==
    ScalarParsed =>
        /\ FieldKey \in DOMAIN Items
        /\ Items[FieldKey] =
               IF LastCast.err = NoError THEN LastCast.value
               ELSE IF LastCast.err.kind \in {"ParseInt.range", "ParseFloat.range"}
               THEN LimitOf(Patterns[1].ValueType, kvLines[Len(kvLines)].value)
               ELSE ZeroOf(Patterns[1].ValueType)

\* an int key whose last record is out of range, after a record that cast to 0
C26_Witness ==
    /\ ScalarParsed
    /\ Patterns[1].ValueType = intValueType
    /\ Len(kvLines) = 2
    /\ kvLines[1].value = <<"0">>
    /\ LastCast.err.kind = "ParseInt.range"
    /\ Items[FieldKey] = IntV(MaxInt64)
    /\ Len(Errors) = 1

\* the cleaned, non-empty label keywords of the rules of the engine
RuleLabels ==
    UNION { CleanedLabels(Patterns[i].Labels) : i \in 1..Len(Patterns) }

\* C27: whenever Parse starts, in whatever order SetLabels and SetPatterns
\* were called before, the known labels include the cleaned form of every
\* label keyword of every rule of the engine.
C27_RuleLabelsKnownAtParse ==
    [][ lastOp' = "Parse" => RuleLabels \subseteq labels.set ]_vars

\* C28: SetPatterns, also when no SetLabels call came before it, returns
\* without a run-time fault, and the known labels then include the cleaned
\* labels of the rules.
C28_SetPatternsWithoutSetLabels ==
    lastOp = "SetPatterns" =>
        /\ ~panicked
        /\ RuleLabels \subseteq labels.set

\* the errors strconv returns; every other entry of Errors comes from Validate
CastErrorKinds == { "ParseBool.syntax", "ParseInt.syntax", "ParseInt.range",
                    "ParseFloat.syntax", "ParseFloat.range" }

\* the last call was a Parse that went past its call of Validate
ParsePassedValidation ==
    /\ lastOp = "Parse"
    /\ Patterns # <<>>
    /\ OriginalText # <<>>
    /\ \A e \in 1..Len(Errors) : Errors[e].kind \in CastErrorKinds

\* C29: a Validate step leaves rules, known labels, text, line separator,
\* Items and Errors as they were; right after another Validate it returns
\* what that one returned; right after a Parse that went past validation it
\* returns no error.
C29_ValidateIsPure ==
    [][ lastOp' = "Validate" =>
          /\ UNCHANGED <<Patterns, labels, OriginalText, Separator, Items, Errors, kvLines>>
          /\ lastOp = "Validate" => ret' = ret
          /\ ParsePassedValidation => ret'.err = NoError
      ]_vars

\* Validate has returned no error on an engine whose Parse resolved the
\* lines of the example, and the result is still there
C29_Witness ==
    /\ lastOp = "Validate"
    /\ ret.err = NoError
    /\ parses >= 1
    /\ Len(kvLines) = 3
    /\ NameKey \in DOMAIN Items
    /\ Items[NameKey] = StrV(John)

\* the maps a Replaces map m can become when its keys are lower-cased: every
\* key in lower case, with the replacement of one of the keys of m that are
\* equal to it up to letter case, the same one for all of them
FoldedMaps(m) ==
    { [i \in 1..Len(m) |-> <<ToLower(m[i][1]), m[c[i]][2]>>] :
        c \in { f \in [1..Len(m) -> 1..Len(m)] :
                  \A i, j \in 1..Len(m) :
                      /\ ToLower(m[f[i]][1]) = ToLower(m[i][1])
                      /\ ToLower(m[i][1]) = ToLower(m[j][1]) => f[i] = f[j] } }

\* C30: after the Parse of a field whose transform has a replacement, the key
\* holds, trimmed: for a fuzzy transform the value in lower case with every
\* occurrence of a key in lower case replaced (among keys equal up to letter
\* case, by the replacement of one of them); for an exact transform the value
\* as written with the occurrences of the keys as written replaced; where
\* keys overlap, the longest is taken.
C30_FuzzyFoldsCase ==
    ( /\ lastOp = "Parse"
      /\ Patterns[1].ValueTransform.Replaces # <<>> )
    => IF Patterns[1].ValueTransform.MatchMethod = FuzzyMatch
       THEN \E m \in FoldedMaps(Patterns[1].ValueTransform.Replaces) :
                Items[FieldKey] = StrV(TrimSpace(LongestKeyReplace(ToLower(FieldValue), m)))
       ELSE Items[FieldKey] =
                StrV(TrimSpace(LongestKeyReplace(FieldValue,
                                                 Patterns[1].ValueTransform.Replaces)))

\* the fuzzy key "Ab" has replaced "aB" in the value "AaB"
C30_Witness ==
    /\ lastOp = "Parse"
    /\ Patterns[1].ValueTransform.MatchMethod = FuzzyMatch
    /\ Patterns[1].ValueTransform.Replaces = << << <<"A","b">>, <<"X">> >> >>
    /\ FieldValue = <<"A","a","B">>
    /\ Items[FieldKey] = StrV(<<"a","X">>)

\* x is an optional sign followed by one or more decimal digits
SignedNumeral(x) ==
    /\ Unsigned(x) # <<>>
    /\ AllDigits(Unsigned(x))

\* the numeral x lies between -2^63 and 2^63 - 1
WithinInt64(x) ==
    ~MagGreater(StripZeros(Unsigned(x)), IF IsNegative(x) THEN MinInt64Mag ELSE MaxInt64)

\* the integer the numeral x denotes, as a canonical numeral
IntegerOf(x) ==
    IF IsNegative(x) /\ StripZeros(Unsigned(x)) # <<"0">>
    THEN <<"-">> \o StripZeros(Unsigned(x))
    ELSE StripZeros(Unsigned(x))

\* the value of the int field after the replacements of its rule
IntText == TransformedAsSpecified(FieldValue, Patterns[1].ValueTransform)

\* C31 as stated: after the Parse of an int field, a transformed value that
\* is a base-10 numeral within the signed 64-bit range leaves that integer
\* and no error; every other value leaves one error and 0.
C31_IntCastOrZero ==
    (pc > 5) =>
        IF SignedNumeral(IntText) /\ WithinInt64(IntText)
        THEN Items[FieldKey] = IntV(IntegerOf(IntText)) /\ Errors = <<>>
        ELSE Items[FieldKey] = IntV(<<"0">>) /\ Len(Errors) = 1

\* C31 amended: a numeral within the range leaves that integer and no error;
\* a numeral outside the range leaves one error and the limit of the range on
\* its side; every other value leaves one error and 0.
C31_IntCast ==
    (pc > 5) =>
        IF SignedNumeral(IntText) /\ WithinInt64(IntText)
        THEN Items[FieldKey] = IntV(IntegerOf(IntText)) /\ Errors = <<>>
        ELSE IF SignedNumeral(IntText)
        THEN /\ Items[FieldKey] =
                    IntV(IF IsNegative(IntText) THEN <<"-">> \o MinInt64Mag ELSE MaxInt64)
             /\ Len(Errors) = 1
        ELSE Items[FieldKey] = IntV(<<"0">>) /\ Len(Errors) = 1

\* the numeral 2^63, one beyond the range, has left 2^63 - 1 and an error
C31_Witness ==
    /\ pc = 6
    /\ lastOp = "Parse"
    /\ FieldValue = MinInt64Mag
    /\ Items[FieldKey] = IntV(MaxInt64)
    /\ Len(Errors) = 1

\* the records of the last Parse that come from the line: its field records
\* and the records that carry the whole line as continuation text
RecordsOfLine(lineText) ==
    FieldRecords(lineText) \cup { r \in 1..Len(kvLines) : kvLines[r].value = lineText }

\* C32: after a Parse every line has at most one record in the resolved list;
\* a line with a field record is not also carried as continuation text.
C32_OneRecordPerLine ==
    ParsedValid =>
        \A k \in 1..Len(ParsedLines) :
            /\ Cardinality(RecordsOfLine(ParsedLines[k])) <= 1
            /\ FieldRecords(ParsedLines[k]) # {} => ~AppendedAsText(ParsedLines[k])

\* C33: after a Parse every line that has the separator of a rule and whose
\* label matches a keyword of that rule has a field record, wherever it
\* stands in the text and whether or not it begins with a known label.
C33_MatchingLineIsField ==
    ParsedValid =>
        \A k \in 1..Len(ParsedLines) :
            (\E i \in 1..Len(Patterns) : RuleMatches(Patterns[i], ParsedLines[k]))
            => FieldRecords(ParsedLines[k]) # {}

\* line k has no separator and no label in front and follows a line with a
\* field record
PlainAfterField(lines, k) ==
    /\ k >= 2
    /\ IsPureText(labels, lines[k])
    /\ ~Contains(lines[k], Colon)
    /\ RuleMatches(Patterns[1], lines[k - 1])

\* the cast of the plain text x to the type of the one rule
PlainCast(x) ==
    CastValue(Patterns[1].ValueType, Patterns[1].ValueTransform.Separators, x, NoError)

\* C34 as stated: a Parse of a text in which a plain line follows a field
\* line of a boolean, int or float rule leaves Items and Errors as a Parse of
\* the text without the plain line does.
C34_PlainLineLeavesScalar ==
    [][ ( /\ lastOp' = "Parse"
          /\ Len(Patterns) = 1
          /\ Patterns[1].ValueType \in {booleanValueType, intValueType, floatValueType} )
        => \A k \in 1..Len(ParsedLines) :
               PlainAfterField(ParsedLines, k) =>
                   \E r \in ParseResults(labels, Patterns,
                                         Join(WithoutLine(ParsedLines, k), Separator),
                                         Separator, Items) :
                       Items' = r.items /\ Errors' = r.errors
      ]_vars

\* C34 amended: after a Parse of a text that ends with a plain line right
\* after a field line of a boolean, int or float rule, the key holds the cast
\* of the plain line's text, and when that cast fails its error is the last
\* of the error list.
C34_PlainLineIsCast ==
    ( /\ ScalarParsed
      /\ PlainAfterField(ParsedLines, Len(ParsedLines)) )
    => /\ kvLines[Len(kvLines)].value = ParsedLines[Len(ParsedLines)]
       /\ Items[FieldKey] = PlainCast(ParsedLines[Len(ParsedLines)]).value
       /\ PlainCast(ParsedLines[Len(ParsedLines)]).err # NoError =>
              /\ Errors # <<>>
              /\ Errors[Len(Errors)] = PlainCast(ParsedLines[Len(ParsedLines)]).err

\* the plain line x after the int field 0 with default 7: the key holds 0 by
\* the failed cast of x, and the error list has its error
C34_Witness ==
    /\ ScalarParsed
    /\ Patterns[1].ValueType = intValueType
    /\ ParsedLines = << <<"f",":","1",",","x">>, <<"f",":","0">>, <<"x">> >>
    /\ Items[FieldKey] = IntV(<<"0">>)
    /\ Len(Errors) = 2
    /\ Errors[2].kind = "ParseInt.syntax"

\* C35: a Parse has one outcome: every result the call can produce from the
\* state it starts in, whatever the order in which the maps are visited, has
\* the result mapping and the error list the call did produce.
C35_ParseDeterministic ==
    [][ lastOp' = "Parse" =>
          \A r \in ParseResults(labels, Patterns, OriginalText, Separator, Items) :
              /\ r.items = Items'
              /\ r.errors = Errors'
      ]_vars

\* the results engine e has when it runs alone, with a rule list of its own
AloneResults(e) ==
    ParseResults([isNil |-> FALSE,
                  set |-> UNION { CleanedLabels(engines[e].given[i].Labels) :
                                    i \in 1..Len(engines[e].given) }],
                 NormalizedUpTo(engines[e].given, Len(engines[e].given)),
                 engines[e].text, NewLine,
                 DefaultItems(engines[e].given, Len(engines[e].given)))

\* C36: with two engines running side by side, with rule lists of their own
\* or with the same rule list, the program is not ended by a concurrent
\* access, and an engine that has returned from Parse has the result mapping
\* and the error list of a run of its own.
C36_InstancesIndependent ==
    /\ ~faulted
    /\ \A e \in DOMAIN engines :
           engines[e].pc = "done" =>
               \E r \in AloneResults(e) :
                   /\ engines[e].Items = r.items
                   /\ engines[e].Errors = r.errors

====
